---- MODULE Spec2Model ----
(***************************************************************************)
(* MQTT 3.1.1 broker: the per-connection handler (MQTTConnectionHandler)  *)
(* and the shared Broker registries it mutates under Broker.lock.         *)
(*                                                                         *)
(* A StreamWriter is identified with the number of its connection.        *)
(* Every handle_* coroutine and the cleanup section of run() runs inside  *)
(* `async with self.broker.lock`, so each is one atomic action.           *)
(***************************************************************************)
EXTENDS Integers, Sequences, FiniteSets, TLC

\* ---- bounds of the model ------------------------------------------------
MaxEntries == 2
MaxPacketId == 1

Conns == {1, 2, 3}
ClientIds == {"A", "B"}
Topics == {"t", "s"}
QoS == {0, 1, 2}
PacketIds == 1..MaxPacketId
Payloads == {"m"}
None == "None"

\* ---- credential and ACL store (UserAuthenticator.users) -----------------
\* one registered user "u" with password "p", authorized for topic "t" only
users == {"u"}
password_of == [name \in users |-> "p"]
authorized_topics == [name \in users |-> {"t"}]
\* ConnectMessage.from_data: username and password are "" when their flag is unset
Credentials == {<<"u", "p">>, <<"u", "wrong">>, <<"", "">>}

\* UserAuthenticator.login: unknown user or wrong password -> False
login(name, pw) == name \in users /\ password_of[name] = pw

\* DevicePairingManager.is_topic_authorized: the print on its first line
\* indexes users[username] before the membership test, so an unknown user
\* raises KeyError instead of returning False.
is_topic_authorized(name, topic) ==
    IF name \notin users THEN "KeyError"
    ELSE IF topic \in authorized_topics[name] THEN "True" ELSE "False"

\* ---- dict helpers ---------------------------------------------------------
Put(f, k, v) == [x \in (DOMAIN f) \cup {k} |-> IF x = k THEN v ELSE f[x]]
Del(f, k) == [x \in (DOMAIN f) \ {k} |-> f[x]]
EmptyMap == [x \in {} |-> {}]

\* ---- packets ----------------------------------------------------------------
ConnAck(sp, rc) == [type |-> "CONNACK", session_present |-> sp, return_code |-> rc]
SubAck(pid, codes) == [type |-> "SUBACK", packet_id |-> pid, return_codes |-> codes]
UnsubAck(pid) == [type |-> "UNSUBACK", packet_id |-> pid]
PubAck(pid) == [type |-> "PUBACK", packet_id |-> pid]
PubRec(pid) == [type |-> "PUBREC", packet_id |-> pid]
PubRel(pid) == [type |-> "PUBREL", qos |-> 1, packet_id |-> pid]
PubComp(pid) == [type |-> "PUBCOMP", packet_id |-> pid]
PingResp == [type |-> "PINGRESP"]
SUBACK_FAILURE == 128

ConnectMsgs ==
    {[type |-> "CONNECT", client_id |-> cid, clean_session |-> cs,
      username |-> cr[1], password |-> cr[2]] :
        cid \in ClientIds, cs \in BOOLEAN, cr \in Credentials}
Entries == Topics \X QoS
EntryLists == UNION {[1..n -> Entries] : n \in 1..MaxEntries}
SubscribeMsgs ==
    {[type |-> "SUBSCRIBE", packet_id |-> pid, subscriptions |-> es] :
        pid \in PacketIds, es \in EntryLists}
\* the SUBSCRIBE packets whose entries all request QoS 1
SubscribeMsgsQos1 ==
    {m \in SubscribeMsgs : \A i \in 1..Len(m.subscriptions) : m.subscriptions[i][2] = 1}

TopicLists == UNION {[1..n -> Topics] : n \in 1..MaxEntries}
UnsubscribeMsgs ==
    {[type |-> "UNSUBSCRIBE", packet_id |-> pid, topics |-> ts] :
        pid \in PacketIds, ts \in TopicLists}
\* PublishMessage.from_data: packet_id is 0 when header.qos = 0
PublishMsgs ==
    {[type |-> "PUBLISH", topic |-> t, qos |-> q,
      packet_id |-> IF q = 0 THEN 0 ELSE pid, payload |-> pl] :
        t \in Topics, q \in QoS, pid \in PacketIds, pl \in Payloads}
AckMsgs ==
    {[type |-> ty, packet_id |-> pid] :
        ty \in {"PUBREC", "PUBREL", "PUBCOMP"}, pid \in PacketIds}
BareMsgs == {[type |-> ty] : ty \in {"PINGREQ", "PINGRESP", "DISCONNECT"}}

\* ---- state --------------------------------------------------------------------
VARIABLES
    authentication_enabled,  \* Broker.authentication_enabled
    subscriptions,           \* Broker.subscriptions: topic -> set of writers
    client_subscriptions,    \* Broker.client_subscriptions: writer -> set of topics
    sessions,                \* Broker.sessions: client_id -> SessionData
    connected_clients,       \* Broker.connected_clients: client_id -> writer
    writer_to_client_id,     \* Broker.writer_to_client_id: writer -> client_id
    client_id,               \* handler.client_id, per connection
    username,                \* handler.username, per connection
    clean_session,           \* handler.clean_session, per connection
    pc,                      \* where run() of each connection stands
    closed,                  \* writer.close() has been called on the writer
    out,                     \* packets each writer accepted during the last step
    last_clean,              \* clean_session of the last accepted CONNECT per client_id
    history,                 \* per connection: the packets the broker handled from
                             \* it and wrote to it, in order (of the types history.keep)
    codec,                   \* one run of the remaining-length codec: the length,
                             \* its bytes and what the reader made of them
    lock,                    \* Broker.lock: the connection whose handler holds it
                             \* and the handlers waiting for it, in order
    task                     \* per connection: where its handler stands between
                             \* acquiring and releasing the lock

broker == <<subscriptions, client_subscriptions, sessions, connected_clients,
            writer_to_client_id>>
handler == <<client_id, username, clean_session>>
vars == <<authentication_enabled, subscriptions, client_subscriptions, sessions,
          connected_clients, writer_to_client_id, client_id, username,
          clean_session, pc, closed, out, last_clean, history, codec, lock, task>>

SessionData == [subscriptions |-> {}, queued_messages |-> <<>>, queued_message_ids |-> {}]
NoOut == [c \in Conns |-> <<>>]

\* asyncio.Lock(): unlocked, nobody waits; 0 stands for no connection
NoLock == [holder |-> 0, waiters |-> <<>>]
\* no handler of the connection is between acquire and release
NoHandler ==
    [stage |-> "none", msg |-> [type |-> "none"], segment |-> 0, raised |-> FALSE,
     expect |-> EmptyMap]

\* Broker.__init__; no connection has been accepted.  subscriptions is a
\* defaultdict(set): a topic without a key reads as the empty set.
InitBroker ==
    /\ authentication_enabled \in BOOLEAN
    /\ subscriptions = [t \in Topics |-> {}]
    /\ client_subscriptions = EmptyMap
    /\ sessions = EmptyMap
    /\ connected_clients = EmptyMap
    /\ writer_to_client_id = EmptyMap
    /\ client_id = [c \in Conns |-> None]
    /\ username = [c \in Conns |-> None]
    /\ clean_session = [c \in Conns |-> TRUE]
    /\ closed = [c \in Conns |-> FALSE]
    /\ out = NoOut
    /\ last_clean = [id \in ClientIds |-> "none"]
    /\ lock = NoLock
    /\ task = [c \in Conns |-> NoHandler]

\* the codec is not exercised
NoCodec ==
    [impl |-> "none", stage |-> "off", length |-> 0, bytes |-> <<>>,
     value |-> 0, consumed |-> 0, error |-> "none"]

NoHistory(keep) ==
    [keep |-> keep, sent |-> [c \in Conns |-> <<>>], received |-> [c \in Conns |-> <<>>]]

\* two clients will connect; no history is kept
Init ==
    /\ InitBroker
    /\ pc = [c \in Conns |-> IF c = 3 THEN "unused" ELSE "idle"]
    /\ history = NoHistory({})
    /\ codec = NoCodec

\* three clients will connect; no history is kept
InitThree ==
    /\ InitBroker
    /\ pc = [c \in Conns |-> "idle"]
    /\ history = NoHistory({})
    /\ codec = NoCodec

\* three clients will connect; the PUBLISH packets of every connection are
\* kept in history
InitOrder ==
    /\ InitBroker
    /\ pc = [c \in Conns |-> "idle"]
    /\ history = NoHistory({"PUBLISH"})
    /\ codec = NoCodec

\* the packets of one handler step: `msgs` handled from connection c, and
\* the packets `written`, per connection they were written to
Kept(pkt) == pkt.type \in history.keep
Record(c, msgs, written) ==
    IF history.keep # {}
    THEN [history EXCEPT
            !.sent[c] = @ \o SelectSeq(msgs, Kept),
            !.received = [h \in Conns |-> @[h] \o SelectSeq(written[h], Kept)]]
    ELSE history

\* Server.handle_client and MQTTConnectionHandler.__init__: a new handler and
\* a new writer for an accepted connection
Accept(c) ==
    /\ pc[c] = "idle"
    /\ pc' = [pc EXCEPT ![c] = "reading"]
    /\ client_id' = [client_id EXCEPT ![c] = None]
    /\ username' = [username EXCEPT ![c] = None]
    /\ clean_session' = [clean_session EXCEPT ![c] = TRUE]
    /\ closed' = [closed EXCEPT ![c] = FALSE]
    /\ out' = NoOut
    /\ UNCHANGED <<authentication_enabled, broker, last_clean, history, codec, lock, task>>

\* ---- working copy of the shared state inside one handler --------------------
Start ==
    [subscriptions |-> subscriptions, client_subscriptions |-> client_subscriptions,
     sessions |-> sessions, connected_clients |-> connected_clients,
     writer_to_client_id |-> writer_to_client_id, closed |-> closed,
     out |-> NoOut, raised |-> FALSE]

\* writer.write(pkt); await writer.drain(): drain() raises ConnectionResetError
\* once close() has been called on the writer, and nothing reaches the peer
Write(r, h, pkt) ==
    IF r.closed[h] THEN [r EXCEPT !.raised = TRUE]
    ELSE [r EXCEPT !.out[h] = Append(@, pkt)]

\* writer.close(); await writer.wait_closed()
Close(r, h) == [r EXCEPT !.closed[h] = TRUE]

\* a faulty unwinding that deletes client_subscriptions[h] and leaves h in the
\* subscriber sets
UnwindSubscriptionsKeepsSubscribers(r, h) ==
    IF h \in DOMAIN r.client_subscriptions
    THEN [r EXCEPT !.client_subscriptions = Del(@, h)]
    ELSE r

\* for topic in client_subscriptions[h]: subscriptions[topic].discard(h)
\* del client_subscriptions[h]
UnwindSubscriptions(r, h) ==
    IF h \in DOMAIN r.client_subscriptions
    THEN [r EXCEPT
            !.subscriptions =
                [t \in Topics |->
                    IF t \in r.client_subscriptions[h]
                    THEN r.subscriptions[t] \ {h}
                    ELSE r.subscriptions[t]],
            !.client_subscriptions = Del(@, h)]
    ELSE r

\* ---- CONNECT (handle_connect) ---------------------------------------------------
\* a faulty rejection that sends the CONNACK and leaves the stream open
RejectConnectLeavesOpen(r, c) == Write(r, c, ConnAck(0, 4))

\* authentication failed: CONNACK rc=4, close, return
RejectConnect(r, c) ==
    LET r1 == Write(r, c, ConnAck(0, 4))
    IN IF r1.raised THEN r1 ELSE Close(r1, c)

\* a faulty resolution that starts every CONNECT with a fresh session
ResolveSessionAlwaysFresh(r, cid, cs) ==
    [r EXCEPT !.sessions = Put(Del(@, cid), cid, SessionData)]

\* resume or create the session / clean session
ResolveSession(r, cid, cs) ==
    IF ~cs
    THEN IF cid \in DOMAIN r.sessions THEN r
         ELSE [r EXCEPT !.sessions = Put(@, cid, SessionData)]
    ELSE [r EXCEPT !.sessions = Put(Del(@, cid), cid, SessionData)]

\* "Check for existing connection and close it"
TakeOverGuard(r, cid, cs) == ~cs /\ cid \in DOMAIN r.connected_clients

TakeOver(r, cid, cs) ==
    IF TakeOverGuard(r, cid, cs)
    THEN LET old_writer == r.connected_clients[cid]
             r1 == UnwindSubscriptions(r, old_writer)
             r2 == IF old_writer \in DOMAIN r1.writer_to_client_id
                   THEN [r1 EXCEPT !.writer_to_client_id = Del(@, old_writer)]
                   ELSE r1
         IN Close(r2, old_writer)
    ELSE r

\* "Mark client as connected"
Register(r, c, cid) ==
    [r EXCEPT !.connected_clients = Put(@, cid, c),
              !.writer_to_client_id = Put(@, c, cid)]

ConnectAccepted(m) == ~authentication_enabled \/ login(m.username, m.password)

ConnectResult(c, m) ==
    IF ~ConnectAccepted(m) THEN RejectConnect(Start, c)
    ELSE LET r1 == ResolveSession(Start, m.client_id, m.clean_session)
             r2 == TakeOver(r1, m.client_id, m.clean_session)
             r3 == Register(r2, c, m.client_id)
         IN Write(r3, c, ConnAck(0, 0))

\* ---- commit of one handler step ---------------------------------------------------
\* an exception leaves handle_message, and run() breaks out of its loop
Commit(c, r) ==
    /\ subscriptions' = r.subscriptions
    /\ client_subscriptions' = r.client_subscriptions
    /\ sessions' = r.sessions
    /\ connected_clients' = r.connected_clients
    /\ writer_to_client_id' = r.writer_to_client_id
    /\ closed' = r.closed
    /\ out' = r.out
    /\ pc' = [pc EXCEPT ![c] = IF r.raised THEN "cleanup" ELSE "reading"]
    /\ UNCHANGED <<authentication_enabled, codec, lock, task>>

HandleConnect(c, m) ==
    /\ pc[c] = "reading"
    /\ client_id' = [client_id EXCEPT ![c] = m.client_id]
    /\ username' = [username EXCEPT ![c] = m.username]
    /\ clean_session' = [clean_session EXCEPT ![c] = m.clean_session]
    /\ last_clean' = IF ConnectAccepted(m)
                     THEN [last_clean EXCEPT ![m.client_id] =
                              IF m.clean_session THEN "clean" ELSE "persistent"]
                     ELSE last_clean
    /\ Commit(c, ConnectResult(c, m))
    /\ history' = Record(c, <<m>>, out')

\* ---- SUBSCRIBE (handle_subscribe) ---------------------------------------------------
\* defaultdict(set).__getitem__ on client_subscriptions inserts the key
Touch(r, c) ==
    IF c \in DOMAIN r.client_subscriptions THEN r
    ELSE [r EXCEPT !.client_subscriptions = Put(@, c, {})]

\* "Add to session subscriptions": sessions[client_id] raises KeyError when the
\* session is gone
SessionSubscribe(r, c, topic) ==
    IF client_id[c] # None /\ ~clean_session[c]
    THEN IF client_id[c] \in DOMAIN r.sessions
         THEN [r EXCEPT !.sessions[client_id[c]].subscriptions = @ \cup {topic}]
         ELSE [r EXCEPT !.raised = TRUE]
    ELSE r

\* the authorization check of one entry: "raise", "deny" or "pass"
SubscribeCheck(c, topic) ==
    IF ~authentication_enabled THEN "pass"
    ELSE LET a == is_topic_authorized(username[c], topic)
         IN IF a = "KeyError" THEN "raise"
            ELSE IF a = "False" THEN "deny" ELSE "pass"

\* a faulty iteration that records no return code for a duplicate subscription
SubscribeEntryDuplicateOmitsQos(c, e, st) ==
    LET topic == e[1]
        qos == e[2]
        chk == SubscribeCheck(c, topic)
    IN IF chk = "raise" THEN [st EXCEPT !.r.raised = TRUE]
       ELSE IF chk = "deny"
       THEN [st EXCEPT !.granted_qos = Append(@, SUBACK_FAILURE)]
       ELSE LET r1 == Touch(st.r, c)
            IN IF topic \notin r1.client_subscriptions[c]
               THEN LET r2 == [r1 EXCEPT !.subscriptions[topic] = @ \cup {c},
                                         !.client_subscriptions[c] = @ \cup {topic}]
                    IN [r |-> SessionSubscribe(r2, c, topic),
                        granted_qos |-> Append(st.granted_qos, qos)]
               ELSE [r |-> r1, granted_qos |-> st.granted_qos]

\* one iteration of `for topic, qos in subscribe_msg.subscriptions`
SubscribeEntry(c, e, st) ==
    LET topic == e[1]
        qos == e[2]
        chk == SubscribeCheck(c, topic)
    IN IF chk = "raise" THEN [st EXCEPT !.r.raised = TRUE]
       ELSE IF chk = "deny"
       THEN [st EXCEPT !.granted_qos = Append(@, SUBACK_FAILURE)]
       ELSE LET r1 == Touch(st.r, c)
            IN IF topic \notin r1.client_subscriptions[c]
               THEN LET r2 == [r1 EXCEPT !.subscriptions[topic] = @ \cup {c},
                                         !.client_subscriptions[c] = @ \cup {topic}]
                    IN [r |-> SessionSubscribe(r2, c, topic),
                        granted_qos |-> Append(st.granted_qos, qos)]
               ELSE [r |-> r1, granted_qos |-> Append(st.granted_qos, qos)]

RECURSIVE SubscribeLoop(_, _, _, _)
SubscribeLoop(c, es, i, st) ==
    IF i > Len(es) \/ st.r.raised THEN st
    ELSE SubscribeLoop(c, es, i + 1, SubscribeEntry(c, es[i], st))

RECURSIVE WriteAll(_, _, _, _)
WriteAll(r, h, msgs, i) ==
    IF i > Len(msgs) \/ r.raised THEN r
    ELSE WriteAll(Write(r, h, msgs[i]), h, msgs, i + 1)

\* a faulty flush that delivers the queue and does not clear it
FlushQueueKeepsQueue(r, c) ==
    IF client_id[c] # None /\ ~clean_session[c] /\ client_id[c] \in DOMAIN r.sessions
       /\ r.sessions[client_id[c]].queued_messages # <<>>
    THEN WriteAll(r, c, r.sessions[client_id[c]].queued_messages, 1)
    ELSE r

\* "Deliver queued messages after SUBACK"
FlushQueue(r, c) ==
    IF client_id[c] # None /\ ~clean_session[c] /\ client_id[c] \in DOMAIN r.sessions
       /\ r.sessions[client_id[c]].queued_messages # <<>>
    THEN LET r1 == WriteAll(r, c, r.sessions[client_id[c]].queued_messages, 1)
         IN IF r1.raised THEN r1
            ELSE [r1 EXCEPT !.sessions[client_id[c]].queued_messages = <<>>,
                            !.sessions[client_id[c]].queued_message_ids = {}]
    ELSE r

\* a faulty handler that delivers the queue before it sends the SUBACK
SubscribeResultFlushFirst(c, m) ==
    LET st == SubscribeLoop(c, m.subscriptions, 1, [r |-> Start, granted_qos |-> <<>>])
    IN IF st.r.raised THEN st.r
       ELSE LET r1 == FlushQueue(st.r, c)
            IN IF r1.raised THEN r1
               ELSE Write(r1, c, SubAck(m.packet_id, st.granted_qos))

SubscribeResult(c, m) ==
    LET st == SubscribeLoop(c, m.subscriptions, 1, [r |-> Start, granted_qos |-> <<>>])
    IN IF st.r.raised THEN st.r
       ELSE LET r1 == Write(st.r, c, SubAck(m.packet_id, st.granted_qos))
            IN IF r1.raised THEN r1 ELSE FlushQueue(r1, c)

HandleSubscribe(c, m) ==
    /\ pc[c] = "reading"
    /\ Commit(c, SubscribeResult(c, m))
    /\ history' = Record(c, <<m>>, out')
    /\ UNCHANGED <<handler, last_clean>>

\* ---- UNSUBSCRIBE (handle_unsubscribe) ---------------------------------------------
SessionUnsubscribe(r, c, topic) ==
    IF client_id[c] # None /\ ~clean_session[c]
    THEN IF client_id[c] \in DOMAIN r.sessions
         THEN [r EXCEPT !.sessions[client_id[c]].subscriptions = @ \ {topic}]
         ELSE [r EXCEPT !.raised = TRUE]
    ELSE r

UnsubscribeEntry(c, topic, r) ==
    LET r1 == Touch(r, c)
    IN IF topic \in r1.client_subscriptions[c]
       THEN SessionUnsubscribe(
                [r1 EXCEPT !.subscriptions[topic] = @ \ {c},
                           !.client_subscriptions[c] = @ \ {topic}], c, topic)
       ELSE r1

RECURSIVE UnsubscribeLoop(_, _, _, _)
UnsubscribeLoop(c, ts, i, r) ==
    IF i > Len(ts) \/ r.raised THEN r
    ELSE UnsubscribeLoop(c, ts, i + 1, UnsubscribeEntry(c, ts[i], r))

UnsubscribeResult(c, m) ==
    LET r == UnsubscribeLoop(c, m.topics, 1, Start)
    IN IF r.raised THEN r ELSE Write(r, c, UnsubAck(m.packet_id))

HandleUnsubscribe(c, m) ==
    /\ pc[c] = "reading"
    /\ Commit(c, UnsubscribeResult(c, m))
    /\ history' = Record(c, <<m>>, out')
    /\ UNCHANGED <<handler, last_clean>>

\* ---- PUBLISH (handle_publish) --------------------------------------------------------
\* message_id = f"{packet_id}-{topic}-{payload_str}"
MessageId(m) == ToString(m.packet_id) \o "-" \o m.topic \o "-" \o m.payload

\* the subscribers the PUBLISH is written to: not the sender, and mapped by
\* writer_to_client_id to a client_id that is in connected_clients
FanOutTargets(r, c, topic) ==
    {h \in r.subscriptions[topic] :
        /\ h # c
        /\ h \in DOMAIN r.writer_to_client_id
        /\ r.writer_to_client_id[h] \in DOMAIN r.connected_clients}

\* a faulty fan-out that lets the exception of a failed write leave the handler
FanOutAbortsOnError(r, c, m) ==
    IF \E h \in FanOutTargets(r, c, m.topic) : r.closed[h]
    THEN [r EXCEPT !.raised = TRUE]
    ELSE [r EXCEPT !.out = [h \in Conns |->
            IF h \in FanOutTargets(r, c, m.topic)
            THEN Append(r.out[h], m) ELSE r.out[h]]]

\* subscriber.write(...); drain(): an exception is logged and swallowed
FanOut(r, c, m) ==
    [r EXCEPT !.out = [h \in Conns |->
        IF h \in FanOutTargets(r, c, m.topic) /\ ~r.closed[h]
        THEN Append(r.out[h], m) ELSE r.out[h]]]

\* a faulty queuing that does not look at the QoS of the PUBLISH
QueueOfflineAnyQos(r, m) ==
    [r EXCEPT !.sessions = [id \in DOMAIN r.sessions |->
        LET session == r.sessions[id]
        IN IF /\ id \notin DOMAIN r.connected_clients
              /\ m.topic \in session.subscriptions
              /\ MessageId(m) \notin session.queued_message_ids
           THEN [session EXCEPT !.queued_messages = Append(@, m),
                                !.queued_message_ids = @ \cup {MessageId(m)}]
           ELSE session]]

\* a faulty queuing that does not look at the subscriptions of the session
QueueOfflineAnyTopic(r, m) ==
    [r EXCEPT !.sessions = [id \in DOMAIN r.sessions |->
        LET session == r.sessions[id]
        IN IF /\ id \notin DOMAIN r.connected_clients
              /\ m.qos \in {1, 2}
              /\ MessageId(m) \notin session.queued_message_ids
           THEN [session EXCEPT !.queued_messages = Append(@, m),
                                !.queued_message_ids = @ \cup {MessageId(m)}]
           ELSE session]]

\* a faulty queuing that does not look the key up before it appends
QueueOfflineWithoutDedup(r, m) ==
    [r EXCEPT !.sessions = [id \in DOMAIN r.sessions |->
        LET session == r.sessions[id]
        IN IF /\ id \notin DOMAIN r.connected_clients
              /\ m.topic \in session.subscriptions
              /\ m.qos \in {1, 2}
           THEN [session EXCEPT !.queued_messages = Append(@, m),
                                !.queued_message_ids = @ \cup {MessageId(m)}]
           ELSE session]]

\* "Iterate through all sessions to find offline subscribers"
QueueOffline(r, m) ==
    [r EXCEPT !.sessions = [id \in DOMAIN r.sessions |->
        LET session == r.sessions[id]
        IN IF /\ id \notin DOMAIN r.connected_clients
              /\ m.topic \in session.subscriptions
              /\ m.qos \in {1, 2}
              /\ MessageId(m) \notin session.queued_message_ids
           THEN [session EXCEPT !.queued_messages = Append(@, m),
                                !.queued_message_ids = @ \cup {MessageId(m)}]
           ELSE session]]

\* a faulty acknowledgment that answers a QoS 2 PUBLISH with PUBACK
PublishAckAlwaysPuback(r, c, m) ==
    IF m.qos \in {1, 2} THEN Write(r, c, PubAck(m.packet_id)) ELSE r

\* "Handle QoS acknowledgments"
PublishAck(r, c, m) ==
    IF m.qos = 1 THEN Write(r, c, PubAck(m.packet_id))
    ELSE IF m.qos = 2 THEN Write(r, c, PubRec(m.packet_id))
    ELSE r

PublishResult(c, m) == PublishAck(QueueOffline(FanOut(Start, c, m), m), c, m)

HandlePublish(c, m) ==
    /\ pc[c] = "reading"
    /\ Commit(c, PublishResult(c, m))
    /\ history' = Record(c, <<m>>, out')
    /\ UNCHANGED <<handler, last_clean>>

\* ---- PUBREC, PUBREL, PUBCOMP, PINGREQ, PINGRESP, DISCONNECT ------------------------
\* a faulty dispatch that answers PUBACK and PUBCOMP with a PUBREL
OtherResultAnswersAcks(c, m) ==
    IF m.type \in {"PUBACK", "PUBREC", "PUBCOMP"} THEN Write(Start, c, PubRel(m.packet_id))
    ELSE IF m.type = "PUBREL" THEN Write(Start, c, PubComp(m.packet_id))
    ELSE IF m.type = "PINGREQ" THEN Write(Start, c, PingResp)
    ELSE IF m.type = "DISCONNECT" THEN Close(Start, c)
    ELSE Start

\* a faulty dispatch that answers PUBREC with a PUBCOMP
OtherResultPubcompForPubrec(c, m) ==
    IF m.type \in {"PUBREC", "PUBREL"} THEN Write(Start, c, PubComp(m.packet_id))
    ELSE IF m.type = "PINGREQ" THEN Write(Start, c, PingResp)
    ELSE IF m.type = "DISCONNECT" THEN Close(Start, c)
    ELSE Start

OtherResult(c, m) ==
    IF m.type = "PUBREC" THEN Write(Start, c, PubRel(m.packet_id))
    ELSE IF m.type = "PUBREL" THEN Write(Start, c, PubComp(m.packet_id))
    ELSE IF m.type = "PINGREQ" THEN Write(Start, c, PingResp)
    ELSE IF m.type = "DISCONNECT" THEN Close(Start, c)
    ELSE Start

HandleOther(c, m) ==
    /\ pc[c] = "reading"
    /\ Commit(c, OtherResult(c, m))
    /\ history' = Record(c, <<m>>, out')
    /\ UNCHANGED <<handler, last_clean>>

\* MQTTConnectionHandler.handle_message: dispatch on the packet type, in any
\* state of the connection
HandleMessage(c, m) ==
    \/ m.type = "CONNECT" /\ HandleConnect(c, m)
    \/ m.type = "SUBSCRIBE" /\ HandleSubscribe(c, m)
    \/ m.type = "UNSUBSCRIBE" /\ HandleUnsubscribe(c, m)
    \/ m.type = "PUBLISH" /\ HandlePublish(c, m)
    \/ m.type \in {"PUBACK", "PUBREC", "PUBREL", "PUBCOMP", "PINGREQ", "PINGRESP",
                   "DISCONNECT"}
       /\ HandleOther(c, m)

\* ---- read failure: EOF at or inside a packet, or a packet the codec rejects ------
ReadFail(c) ==
    /\ pc[c] = "reading"
    /\ pc' = [pc EXCEPT ![c] = "cleanup"]
    /\ out' = NoOut
    /\ UNCHANGED <<authentication_enabled, broker, handler, closed, last_clean, history, codec, lock, task>>

\* ---- cleanup section of run() --------------------------------------------------------
CleanupSession(r, c) ==
    IF client_id[c] # None /\ clean_session[c] /\ client_id[c] \in DOMAIN r.sessions
    THEN [r EXCEPT !.sessions = Del(@, client_id[c])]
    ELSE r

\* "Remove client from connected clients"
CleanupConnected(r, c) ==
    IF client_id[c] \in DOMAIN r.connected_clients
    THEN [r EXCEPT !.connected_clients = Del(@, client_id[c])]
    ELSE r

\* a faulty cleanup that leaves the writer in writer_to_client_id
CleanupWriterKeepsEntry(r, c) == r

CleanupWriter(r, c) ==
    IF c \in DOMAIN r.writer_to_client_id
    THEN [r EXCEPT !.writer_to_client_id = Del(@, c)]
    ELSE r

CleanupResult(c) ==
    Close(CleanupWriter(CleanupConnected(
        UnwindSubscriptions(CleanupSession(Start, c), c), c), c), c)

\* run() returns after the cleanup and the handler object is released
Cleanup(c) ==
    /\ pc[c] = "cleanup"
    /\ LET r == CleanupResult(c)
       IN /\ subscriptions' = r.subscriptions
          /\ client_subscriptions' = r.client_subscriptions
          /\ sessions' = r.sessions
          /\ connected_clients' = r.connected_clients
          /\ writer_to_client_id' = r.writer_to_client_id
          /\ closed' = r.closed
          /\ out' = r.out
    /\ pc' = [pc EXCEPT ![c] = "done"]
    /\ client_id' = [client_id EXCEPT ![c] = None]
    /\ username' = [username EXCEPT ![c] = None]
    /\ clean_session' = [clean_session EXCEPT ![c] = TRUE]
    /\ UNCHANGED <<authentication_enabled, last_clean, history, codec, lock, task>>

\* ---- what the clients send --------------------------------------------------------
\* the packets a client may send on connection c: its client ids are drawn
\* from ids[c], its topics from `topics`; without authentication the clients
\* send no credentials
MessagesOver(ids, topics, c) ==
    {m \in ConnectMsgs :
        m.client_id \in ids[c] /\ (authentication_enabled <=> m.username # "")}
    \cup {m \in SubscribeMsgsQos1 :
            \A i \in DOMAIN m.subscriptions : m.subscriptions[i][1] \in topics}
    \cup {m \in UnsubscribeMsgs : \A i \in DOMAIN m.topics : m.topics[i] \in topics}
    \cup {m \in PublishMsgs : m.topic \in topics /\ m.qos \in {0, 1}}
    \cup {m \in AckMsgs : m.type = "PUBCOMP"}
    \cup {m \in BareMsgs : m.type # "PINGRESP"}

NextOver(ids, topics) ==
    \/ \E c \in Conns : Accept(c)
    \/ \E c \in Conns : \E m \in MessagesOver(ids, topics, c) : HandleMessage(c, m)
    \/ \E c \in Conns : ReadFail(c)
    \/ \E c \in Conns : Cleanup(c)

\* every connection uses client id "A", on two topics
Next == NextOver([c \in Conns |-> {"A"}], Topics)
Spec == Init /\ [][Next]_vars

\* the first connection uses client id "A", the others "A" or "B", on one topic
NextIds == NextOver([c \in Conns |-> IF c = 1 THEN {"A"} ELSE ClientIds], {"t"})
SpecIds == Init /\ [][NextIds]_vars

\* every connection uses client id "A", on one topic
NextOne == NextOver([c \in Conns |-> {"A"}], {"t"})
SpecOne == Init /\ [][NextOne]_vars

\* the QoS flows: every connection uses client id "A" with a persistent
\* session, on one topic; PUBLISH at every QoS and every acknowledgment packet
MessagesQos ==
    {m \in ConnectMsgs :
        /\ m.client_id = "A" /\ ~m.clean_session
        /\ (authentication_enabled <=> m.username = "u") /\ m.password \in {"", "p"}}
    \cup {m \in SubscribeMsgs :
            Len(m.subscriptions) = 1 /\ m.subscriptions[1] = <<"t", 2>>}
    \cup {m \in UnsubscribeMsgs : Len(m.topics) = 1 /\ m.topics[1] = "t"}
    \cup {m \in PublishMsgs : m.topic = "t"}
    \cup AckMsgs
    \cup BareMsgs

NextQos ==
    \/ \E c \in Conns : Accept(c)
    \/ \E c \in Conns : \E m \in MessagesQos : HandleMessage(c, m)
    \/ \E c \in Conns : ReadFail(c)
    \/ \E c \in Conns : Cleanup(c)
SpecQos == Init /\ [][NextQos]_vars

\* the offline queue: every connection uses client id "A" with a persistent
\* session, on two topics; SUBSCRIBE and UNSUBSCRIBE with one entry, PUBLISH
\* at QoS 1
MessagesQueue ==
    {m \in ConnectMsgs :
        /\ m.client_id = "A" /\ ~m.clean_session
        /\ (authentication_enabled <=> m.username = "u") /\ m.password \in {"", "p"}}
    \cup {m \in SubscribeMsgsQos1 : Len(m.subscriptions) = 1}
    \cup {m \in UnsubscribeMsgs : Len(m.topics) = 1}
    \cup {m \in PublishMsgs : m.qos = 1}
    \cup {m \in AckMsgs : m.type = "PUBCOMP"}
    \cup {m \in BareMsgs : m.type = "DISCONNECT"}

NextQueue ==
    \/ \E c \in Conns : Accept(c)
    \/ \E c \in Conns : \E m \in MessagesQueue : HandleMessage(c, m)
    \/ \E c \in Conns : ReadFail(c)
    \/ \E c \in Conns : Cleanup(c)
SpecQueue == Init /\ [][NextQueue]_vars

\* ---- states of a connection (spec: INITIAL, CONNECTED) ---------------------------
\* the handler has not handled any CONNECT yet
Initial(c) == pc[c] = "reading" /\ client_id[c] = None
\* the handler has accepted a CONNECT: only its own handle_connect registers c
Registered(c) == pc[c] = "reading" /\ c \in DOMAIN writer_to_client_id

\* ---- C1 ----------------------------------------------------------------------------
\* C1: in every reachable state the two subscription registries agree: a
\* handle h is in subscriptions[t] exactly when t is in client_subscriptions[h].
RegistriesAgree ==
    \A h \in Conns : \A t \in Topics :
        h \in subscriptions[t]
            <=> (h \in DOMAIN client_subscriptions /\ t \in client_subscriptions[h])

\* a connection holds both topics in both registries after another connection,
\* which had subscribed too, has been cleaned up
RegistriesAgreeWitness ==
    \E h \in Conns : \E g \in Conns \ {h} :
        /\ h \in DOMAIN client_subscriptions
        /\ client_subscriptions[h] = Topics
        /\ \A t \in Topics : subscriptions[t] = {h}
        /\ pc[g] = "done"
        /\ client_id[h] # None

\* ---- C2 ----------------------------------------------------------------------------
\* C2: between handler executions, sessions holds a client_id exactly when a
\* connection with that client_id is registered as connected or the most
\* recent accepted CONNECT carrying that client_id had clean_session = false.
SessionIffConnectedOrPersistent ==
    \A id \in ClientIds :
        id \in DOMAIN sessions
            <=> (id \in DOMAIN connected_clients \/ last_clean[id] = "persistent")

\* ---- C3 ----------------------------------------------------------------------------
\* C3: an accepted CONNECT whose client_id is registered for another handle
\* removes that old handle from every subscriber set, from
\* client_subscriptions and from writer_to_client_id, and closes its stream,
\* whatever the clean_session flag of the new CONNECT.
TakeOverUnconditional ==
    [][\A c \in Conns : \A m \in ConnectMsgs :
          (/\ HandleConnect(c, m)
           /\ ConnectAccepted(m)
           /\ m.client_id \in DOMAIN connected_clients
           /\ connected_clients[m.client_id] # c)
          => LET old == connected_clients[m.client_id]
             IN /\ \A t \in Topics : old \notin subscriptions'[t]
                /\ old \notin DOMAIN client_subscriptions'
                /\ old \notin DOMAIN writer_to_client_id'
                /\ closed'[old]]_vars

\* ---- C4 ----------------------------------------------------------------------------
\* C4: the cleanup of a connection deletes connected_clients[client_id] only
\* if that entry maps to the connection's own handle; an entry that maps to
\* another handle, and the session of that client_id, are still there after it.
CleanupKeepsNewConnection ==
    [][\A c \in Conns :
          Cleanup(c)
          => \A id \in DOMAIN connected_clients :
                connected_clients[id] # c
                => /\ id \in DOMAIN connected_clients'
                   /\ connected_clients'[id] = connected_clients[id]
                   /\ (id \in DOMAIN sessions => id \in DOMAIN sessions')]_vars

\* ---- C5 ----------------------------------------------------------------------------
\* C5: connected_clients and writer_to_client_id are inverse maps:
\* connected_clients[id] = h exactly when writer_to_client_id[h] = id.
RegistriesInverse ==
    \A id \in ClientIds : \A h \in Conns :
        (id \in DOMAIN connected_clients /\ connected_clients[id] = h)
            <=> (h \in DOMAIN writer_to_client_id /\ writer_to_client_id[h] = id)

\* ---- C6 ----------------------------------------------------------------------------
NonConnectMsgs == SubscribeMsgs \cup UnsubscribeMsgs \cup PublishMsgs \cup AckMsgs \cup BareMsgs

\* C6: when the first packet of a connection is not a CONNECT, the connection
\* is closed, nothing is written to any stream, and no registry or session
\* changes.
FirstPacketMustBeConnect ==
    [][\A c \in Conns : \A m \in NonConnectMsgs :
          (Initial(c) /\ HandleMessage(c, m))
          => /\ closed'[c] \/ pc'[c] = "cleanup"
             /\ out' = NoOut
             /\ UNCHANGED broker]_vars

\* ---- C7 ----------------------------------------------------------------------------
\* C7: a CONNECT received on a connection that has already accepted one is a
\* protocol error: the read loop is left, and the session store, the
\* connection registries and the handler's client_id and clean_session stay
\* as the first CONNECT set them.
SecondConnectIsProtocolError ==
    [][\A c \in Conns : \A m \in ConnectMsgs :
          (Registered(c) /\ HandleConnect(c, m))
          => /\ pc'[c] = "cleanup"
             /\ UNCHANGED <<sessions, connected_clients, writer_to_client_id>>
             /\ client_id'[c] = client_id[c]
             /\ clean_session'[c] = clean_session[c]]_vars

\* ---- C8 ----------------------------------------------------------------------------
\* C8: a CONNECT that fails authentication is answered with exactly one
\* CONNACK (session_present 0, return code 4) and nothing else on any
\* stream, the stream of the connection is closed, and the session store,
\* the connection registries and the subscription registries are left as
\* they were: no session resolution, no take-over, no registration.  (On a
\* stream that is already closed the CONNACK cannot be written; the write
\* raises and the read loop is left.)
RejectedConnectOnlyConnack ==
    [][\A c \in Conns : \A m \in ConnectMsgs :
          (HandleConnect(c, m) /\ ~ConnectAccepted(m))
          => /\ out' = [NoOut EXCEPT ![c] =
                            IF closed[c] THEN <<>> ELSE <<ConnAck(0, 4)>>]
             /\ closed' = [closed EXCEPT ![c] = TRUE]
             /\ pc'[c] = IF closed[c] THEN "cleanup" ELSE "reading"
             /\ UNCHANGED broker
             /\ Initial(c) => /\ c \notin DOMAIN writer_to_client_id'
                              /\ \A id \in DOMAIN connected_clients' :
                                    connected_clients'[id] # c]_vars

\* the first CONNECT of a connection has been rejected, naming the client id
\* of a client that is connected and keeps its registration and session
RejectedConnectWitness ==
    \E c \in Conns : \E g \in Conns \ {c} :
        /\ out = [NoOut EXCEPT ![c] = <<ConnAck(0, 4)>>]
        /\ closed[c] /\ pc[c] = "reading"
        /\ client_id[c] = "A"
        /\ c \notin DOMAIN writer_to_client_id
        /\ "A" \in DOMAIN connected_clients /\ connected_clients["A"] = g
        /\ "A" \in DOMAIN sessions
        /\ ~closed[g]

\* ---- C9 ----------------------------------------------------------------------------
\* the authorizer denies the topic to the user of connection c
Denied(c, topic) ==
    authentication_enabled /\ is_topic_authorized(username[c], topic) # "True"

\* the return codes the SUBACK for m on connection c has to carry
ExpectedCodes(c, m) ==
    [i \in 1..Len(m.subscriptions) |->
        IF Denied(c, m.subscriptions[i][1]) THEN SUBACK_FAILURE
        ELSE m.subscriptions[i][2]]

\* C9: every SUBSCRIBE with n entries, on a connected client's open stream,
\* is answered with exactly one SUBACK that carries the packet_id of the
\* SUBSCRIBE and n return codes in the order of the entries: 0x80 for an
\* entry the authorizer denied, the requested QoS otherwise.
SubackForEverySubscribe ==
    [][\A c \in Conns : \A m \in SubscribeMsgs :
          (Registered(c) /\ ~closed[c] /\ HandleSubscribe(c, m))
          => /\ Len(out'[c]) >= 1
             /\ out'[c][1] = SubAck(m.packet_id, ExpectedCodes(c, m))
             /\ \A i \in 2..Len(out'[c]) : out'[c][i].type # "SUBACK"]_vars

\* ---- C10 ---------------------------------------------------------------------------
\* topic is in the stored session of the client id of connection c
InSession(ss, c, topic) ==
    client_id[c] \in DOMAIN ss /\ topic \in ss[client_id[c]].subscriptions

\* C10: a SUBSCRIBE with an entry the authorizer denies changes neither
\* subscription registry nor the session for the denied topic, its other
\* entries are subscribed, and the connection stays open.
DeniedEntryChangesNothing ==
    [][\A c \in Conns : \A m \in SubscribeMsgs :
          (/\ Registered(c) /\ ~closed[c] /\ HandleSubscribe(c, m)
           /\ \E i \in 1..Len(m.subscriptions) : Denied(c, m.subscriptions[i][1]))
          => /\ \A i \in 1..Len(m.subscriptions) :
                  LET topic == m.subscriptions[i][1]
                  IN IF Denied(c, topic)
                     THEN /\ c \in subscriptions'[topic] <=> c \in subscriptions[topic]
                          /\ (c \in DOMAIN client_subscriptions'
                                 /\ topic \in client_subscriptions'[c])
                             <=> (c \in DOMAIN client_subscriptions
                                     /\ topic \in client_subscriptions[c])
                          /\ InSession(sessions', c, topic) <=> InSession(sessions, c, topic)
                     ELSE /\ c \in subscriptions'[topic]
                          /\ c \in DOMAIN client_subscriptions'
                          /\ topic \in client_subscriptions'[c]
             /\ pc'[c] = "reading"
             /\ ~closed'[c]]_vars

\* ---- C11 ---------------------------------------------------------------------------
\* the PUBLISH packets among the packets a writer accepted
Publishes(seq) == SelectSeq(seq, LAMBDA pkt : pkt.type = "PUBLISH")

\* C11: a PUBLISH on topic t is written, unchanged, to every handle in
\* subscriptions[t] other than the sender's (whose stream is open), and to no
\* other handle; the sender never receives its own PUBLISH.
FanOutToEverySubscriber ==
    [][\A c \in Conns : \A m \in PublishMsgs :
          HandlePublish(c, m)
          => \A h \in Conns :
                Publishes(out'[h]) =
                    IF h # c /\ h \in subscriptions[m.topic] /\ ~closed[h]
                    THEN <<m>> ELSE <<>>]_vars

\* ---- C12 ---------------------------------------------------------------------------
\* the acknowledgment the QoS of a PUBLISH requires
ExpectedAck(m) ==
    IF m.qos = 1 THEN <<PubAck(m.packet_id)>>
    ELSE IF m.qos = 2 THEN <<PubRec(m.packet_id)>>
    ELSE <<>>

\* C12: handling a PUBLISH writes to the sender exactly the acknowledgment
\* its QoS requires: nothing for QoS 0, one PUBACK with the packet_id for
\* QoS 1, one PUBREC with the packet_id for QoS 2, whether or not a
\* subscriber or an offline session exists for the topic.  (On a sender's
\* stream that is already closed nothing can be written; the write of the
\* acknowledgment raises and the read loop is left.)
PublishAcknowledged ==
    [][\A c \in Conns : \A m \in PublishMsgs :
          HandlePublish(c, m)
          => /\ out'[c] = IF closed[c] THEN <<>> ELSE ExpectedAck(m)
             /\ pc'[c] = IF closed[c] /\ m.qos # 0 THEN "cleanup" ELSE "reading"]_vars

\* a QoS 2 PUBLISH has been answered with PUBREC while nobody subscribes to its
\* topic and no session exists
PublishAcknowledgedWitness ==
    \E c \in Conns :
        /\ Registered(c) /\ out[c] = <<PubRec(1)>>
        /\ \A t \in Topics : subscriptions[t] = {}
        /\ \A id \in DOMAIN sessions : sessions[id].subscriptions = {}

\* ---- C13 ---------------------------------------------------------------------------
\* C13: with authorization enabled, a PUBLISH on a topic the authorizer
\* denies to the sender's user is dropped: nothing is written to any stream
\* (no forward, no PUBACK, no PUBREC) and no offline queue changes.
DeniedPublishDropped ==
    [][\A c \in Conns : \A m \in PublishMsgs :
          (Registered(c) /\ Denied(c, m.topic) /\ HandlePublish(c, m))
          => /\ out' = NoOut
             /\ UNCHANGED sessions]_vars

\* ---- C14 ---------------------------------------------------------------------------
\* the conditions under which a PUBLISH goes to the offline queue of session id
QueueCondition(id, m) ==
    /\ id \notin DOMAIN connected_clients
    /\ m.topic \in sessions[id].subscriptions
    /\ m.qos \in {1, 2}
    /\ MessageId(m) \notin sessions[id].queued_message_ids

\* C14: handling a PUBLISH appends it to the offline queue of a session
\* exactly when the session's client_id is not in connected_clients, the
\* topic is in the session's subscriptions, the QoS is 1 or 2 and the dedup
\* key is not yet in queued_message_ids; every other queue stays as it was
\* (so a QoS 0 PUBLISH is queued nowhere, and nothing is queued for a client
\* that is in connected_clients).
OfflineQueueExactly ==
    [][\A c \in Conns : \A m \in PublishMsgs :
          HandlePublish(c, m)
          => /\ DOMAIN sessions' = DOMAIN sessions
             /\ \A id \in DOMAIN sessions :
                   sessions'[id].queued_messages =
                       IF QueueCondition(id, m)
                       THEN Append(sessions[id].queued_messages, m)
                       ELSE sessions[id].queued_messages]_vars

\* a session holds one queued QoS 2 PUBLISH, and the QoS 1 PUBLISH with the same
\* dedup key that has just been acknowledged was not queued again
OfflineQueueWitness ==
    \E id \in DOMAIN sessions : \E c \in Conns :
        /\ id \notin DOMAIN connected_clients
        /\ Len(sessions[id].queued_messages) = 1
        /\ sessions[id].queued_messages[1].qos = 2
        /\ out[c] = <<PubAck(1)>>

\* ---- C15 ---------------------------------------------------------------------------
\* connection c belongs to a client that resumed its persistent session
Resumed(c) ==
    /\ Registered(c) /\ ~closed[c]
    /\ ~clean_session[c] /\ client_id[c] \in DOMAIN sessions

\* C15: a SUBSCRIBE on a connection that resumed a persistent session writes
\* every PUBLISH of the session's offline queue to this connection exactly
\* once, in the order of the queue, and leaves queued_messages and
\* queued_message_ids empty.
QueueFlushedOnSubscribe ==
    \A c \in Conns : \A m \in SubscribeMsgsQos1 :
        Resumed(c)
        => LET r == SubscribeResult(c, m)
               id == client_id[c]
           IN /\ ~r.raised
              /\ Publishes(r.out[c]) = sessions[id].queued_messages
              /\ r.sessions[id].queued_messages = <<>>
              /\ r.sessions[id].queued_message_ids = {}

\* two different queued PUBLISH packets have just been delivered behind a
\* SUBACK, and the queue of the session is empty
QueueFlushedWitness ==
    \E c \in Conns :
        /\ Resumed(c)
        /\ Len(out[c]) = 3
        /\ out[c][2].type = "PUBLISH" /\ out[c][3].type = "PUBLISH"
        /\ out[c][2] # out[c][3]
        /\ sessions[client_id[c]].queued_messages = <<>>
        /\ sessions[client_id[c]].queued_message_ids = {}

\* ---- C16 ---------------------------------------------------------------------------
\* C16: no queued PUBLISH is written to a connection before the SUBACK of
\* the SUBSCRIBE that triggers the flush: whatever handle_subscribe writes
\* starts with the SUBACK of this SUBSCRIBE and every PUBLISH comes after
\* it, and handle_connect writes no PUBLISH at all.
SubackBeforeQueuedPublish ==
    \A c \in Conns :
        pc[c] = "reading"
        => /\ \A m \in SubscribeMsgsQos1 :
                LET o == SubscribeResult(c, m).out[c]
                IN \A i \in 1..Len(o) :
                      o[i].type = "PUBLISH"
                      => /\ i > 1
                         /\ o[1].type = "SUBACK"
                         /\ o[1].packet_id = m.packet_id
           /\ \A m \in ConnectMsgs : Publishes(ConnectResult(c, m).out[c]) = <<>>

\* a connection has just received a SUBACK followed by one queued PUBLISH
SubackBeforeQueuedPublishWitness ==
    \E c \in Conns :
        /\ Resumed(c)
        /\ Len(out[c]) = 2
        /\ out[c][1].type = "SUBACK" /\ out[c][2].type = "PUBLISH"

\* ---- C17 ---------------------------------------------------------------------------
IsPrefix(a, b) == Len(a) <= Len(b) /\ SubSeq(b, 1, Len(a)) = a

\* C17: a session whose last accepted CONNECT had clean_session = false stays
\* in the store until a clean-session CONNECT for its client_id is accepted;
\* the end of a connection, and every step while its client is not in
\* connected_clients, leaves its subscription set as it was and removes
\* nothing from its queue, and a QoS 1 or 2 PUBLISH on one of its topics
\* while the client is offline is in the queue afterwards.
PersistentSessionSurvives ==
    [][\A id \in ClientIds :
          (id \in DOMAIN sessions /\ last_clean[id] = "persistent")
          => \/ \E c \in Conns : \E m \in ConnectMsgs :
                   /\ HandleConnect(c, m) /\ ConnectAccepted(m)
                   /\ m.client_id = id /\ m.clean_session
             \/ /\ id \in DOMAIN sessions'
                /\ ((\E c \in Conns : Cleanup(c)) \/ id \notin DOMAIN connected_clients)
                   => /\ sessions'[id].subscriptions = sessions[id].subscriptions
                      /\ IsPrefix(sessions[id].queued_messages,
                                  sessions'[id].queued_messages)
                /\ \A c \in Conns : \A m \in PublishMsgs :
                      (/\ HandlePublish(c, m)
                       /\ id \notin DOMAIN connected_clients
                       /\ m.topic \in sessions[id].subscriptions
                       /\ m.qos \in {1, 2})
                      => \E i \in 1..Len(sessions'[id].queued_messages) :
                            MessageId(sessions'[id].queued_messages[i]) = MessageId(m)]_vars

\* ---- C18 ---------------------------------------------------------------------------
\* C18: after the cleanup of a registered connection whose clean_session is
\* true, no registry contains its client_id or its handle, as key or as
\* value, also when another connection used the same client_id.
CleanSessionCleanupLeavesNothing ==
    [][\A c \in Conns :
          (/\ Cleanup(c) /\ c \in DOMAIN writer_to_client_id
           /\ client_id[c] # None /\ clean_session[c])
          => LET id == client_id[c]
             IN /\ id \notin DOMAIN sessions'
                /\ id \notin DOMAIN connected_clients'
                /\ \A h \in DOMAIN writer_to_client_id' : writer_to_client_id'[h] # id
                /\ c \notin DOMAIN writer_to_client_id'
                /\ \A k \in DOMAIN connected_clients' : connected_clients'[k] # c
                /\ \A t \in Topics : c \notin subscriptions'[t]
                /\ c \notin DOMAIN client_subscriptions']_vars

\* ---- C19 ---------------------------------------------------------------------------
\* the topics listed in an UNSUBSCRIBE
Listed(m) == {m.topics[i] : i \in 1..Len(m.topics)}

\* C19: an UNSUBSCRIBE from a connected client is answered with exactly one
\* UNSUBACK carrying its packet_id; afterwards, for each listed topic, the
\* handle is not in subscriptions[topic], the topic is not in
\* client_subscriptions[handle] and not in the session's subscription set;
\* the topics that are not listed keep their subscribers.
UnsubscribeRemovesAndAcks ==
    [][\A c \in Conns : \A m \in UnsubscribeMsgs :
          (Registered(c) /\ ~closed[c] /\ HandleUnsubscribe(c, m))
          => /\ out' = [NoOut EXCEPT ![c] = <<UnsubAck(m.packet_id)>>]
             /\ \A topic \in Listed(m) :
                   /\ c \notin subscriptions'[topic]
                   /\ topic \notin client_subscriptions'[c]
                   /\ ~InSession(sessions', c, topic)
             /\ \A topic \in Topics \ Listed(m) :
                   subscriptions'[topic] = subscriptions[topic]]_vars

\* ---- C20 ---------------------------------------------------------------------------
\* C20: the broker answers a QoS 2 PUBLISH(id) with exactly one PUBREC(id),
\* every PUBREC(id) with exactly one PUBREL(id) whose fixed header has
\* qos = 1, and every PUBREL(id) with exactly one PUBCOMP(id), whether or not
\* a PUBLISH with that id preceded it; PUBREC and PUBREL change no registry
\* and no session.  (On a stream that is already closed nothing can be
\* written; the write raises and the read loop is left.)
QoS2Acknowledgments ==
    [][\A c \in Conns :
          /\ \A m \in AckMsgs :
                (m.type \in {"PUBREC", "PUBREL"} /\ HandleOther(c, m))
                => /\ out' = [NoOut EXCEPT ![c] =
                                 IF closed[c] THEN <<>>
                                 ELSE IF m.type = "PUBREC"
                                      THEN <<[type |-> "PUBREL", qos |-> 1,
                                              packet_id |-> m.packet_id]>>
                                      ELSE <<[type |-> "PUBCOMP",
                                              packet_id |-> m.packet_id]>>]
                   /\ UNCHANGED <<broker, handler, closed>>
                   /\ pc'[c] = IF closed[c] THEN "cleanup" ELSE "reading"
          /\ \A m \in PublishMsgs :
                (m.qos = 2 /\ ~closed[c] /\ HandlePublish(c, m))
                => out'[c] = <<[type |-> "PUBREC", packet_id |-> m.packet_id]>>]_vars

\* a PUBREL has been answered with PUBCOMP on the connection of a connected client
QoS2AcknowledgmentsWitness ==
    \E c \in Conns :
        /\ Registered(c) /\ ~closed[c]
        /\ out = [NoOut EXCEPT ![c] = <<PubComp(1)>>]

\* ---- the cleanup section is reached and leaves nothing of the handle -----------
\* every connection uses client id "A", on one topic; the lock of the broker
\* is an asyncio.Lock, which wakes its waiters in turn, and every handler
\* returns it, so the cleanup section that waits for it is eventually run
SpecCleanup == Init /\ [][NextOne]_vars /\ \A c \in Conns : WF_vars(Cleanup(c))

\* the handle h is in no subscriber set and in no writer-keyed registry, and
\* its stream is closed
Released(h) ==
    /\ \A t \in Topics : h \notin subscriptions[t]
    /\ h \notin DOMAIN client_subscriptions
    /\ h \notin DOMAIN writer_to_client_id
    /\ closed[h]

MessagesOrder(c) ==
    IF c = 3
    THEN {m \in PublishMsgs :
            /\ m.topic = "t" /\ m.qos \in {0, 1}
            /\ \A i \in DOMAIN history.sent[c] : history.sent[c][i] # m}
    ELSE {m \in ConnectMsgs :
            /\ m.client_id = "A" /\ ~m.clean_session
            /\ (authentication_enabled <=> m.username = "u")}
         \cup {m \in SubscribeMsgsQos1 : Len(m.subscriptions) = 1}

NextOrder ==
    \/ \E c \in Conns : Accept(c)
    \/ \E c \in Conns : \E m \in MessagesOrder(c) : HandleMessage(c, m)
    \/ \E c \in Conns : ReadFail(c)
    \/ \E c \in Conns : Cleanup(c)
SpecOrder == InitOrder /\ [][NextOrder]_vars

\* the position of the first packet equal to m in seq, 0 if there is none
FirstIndex(seq, m) ==
    IF \E i \in DOMAIN seq : seq[i] = m
    THEN CHOOSE i \in DOMAIN seq : seq[i] = m /\ \A k \in 1..(i - 1) : seq[k] # m
    ELSE 0

\* C22: the packets of one connection are handled in the order they were
\* sent (history.sent[p] is that order), and if one publisher sent PUBLISH p1
\* before p2 on the same topic, every connection that received both received
\* p1 before p2.
PublisherOrderPreserved ==
    \A p \in Conns : \A h \in Conns :
        \A i \in DOMAIN history.sent[p] : \A j \in DOMAIN history.sent[p] :
            LET p1 == history.sent[p][i]
                p2 == history.sent[p][j]
                n1 == FirstIndex(history.received[h], p1)
                n2 == FirstIndex(history.received[h], p2)
            IN (i < j /\ p1.topic = p2.topic /\ n1 > 0 /\ n2 > 0) => n1 < n2

\* ---- a failed write during fan-out ------------------------------------------------
\* connection 1 is client "A" and connection 2 is client "B"; they send
\* CONNECT, SUBSCRIBE to "t" and DISCONNECT; connection 3 publishes on "t" at
\* every QoS
MessagesFanOut(c) ==
    IF c = 3
    THEN {m \in PublishMsgs : pc[c] = "reading" /\ m.topic = "t"}
    ELSE {m \in ConnectMsgs :
            /\ m.client_id = (IF c = 1 THEN "A" ELSE "B")
            /\ (authentication_enabled <=> m.username = "u") /\ m.password \in {"", "p"}}
         \cup {m \in SubscribeMsgsQos1 :
                 Len(m.subscriptions) = 1 /\ m.subscriptions[1][1] = "t"}
         \cup {m \in BareMsgs : m.type = "DISCONNECT"}

NextFanOut ==
    \/ \E c \in Conns : Accept(c)
    \/ \E c \in Conns : \E m \in MessagesFanOut(c) : HandleMessage(c, m)
    \/ \E c \in Conns : ReadFail(c)
    \/ \E c \in Conns : Cleanup(c)
SpecFanOut == InitThree /\ [][NextFanOut]_vars

\* the subscribers the fan-out of a PUBLISH from c writes to and whose write
\* fails: their stream has been closed
FailingTargets(c, topic) == {h \in FanOutTargets(Start, c, topic) : closed[h]}

\* C23: when the write of a PUBLISH to one subscriber fails during fan-out,
\* the handling goes on: every other subscriber the fan-out writes to
\* receives the packet, every offline session that is to queue it has it
\* appended, the sender (whose stream is open) gets its PUBACK or PUBREC,
\* and the sender's connection stays open in its read loop.
FanOutErrorSwallowed ==
    \A c \in Conns : \A m \in PublishMsgs :
        (pc[c] = "reading" /\ ~closed[c] /\ FailingTargets(c, m.topic) # {})
        => LET r == PublishResult(c, m)
           IN /\ \A h \in FanOutTargets(Start, c, m.topic) \ FailingTargets(c, m.topic) :
                    r.out[h] = <<m>>
              /\ \A id \in DOMAIN sessions :
                    QueueCondition(id, m)
                    => r.sessions[id].queued_messages
                           = Append(sessions[id].queued_messages, m)
              /\ r.out[c] = ExpectedAck(m)
              /\ ~r.raised /\ ~r.closed[c]

\* connection 3 has published at QoS 1 and got its PUBACK; subscriber 1 had
\* closed its stream and got nothing, subscriber 2 got the PUBLISH
FanOutErrorSwallowedWitness ==
    /\ pc[3] = "reading" /\ ~closed[3] /\ out[3] = <<PubAck(1)>>
    /\ FailingTargets(3, "t") = {1} /\ out[1] = <<>>
    /\ 2 \in FanOutTargets(Start, 3, "t") /\ Len(out[2]) = 1 /\ out[2][1].type = "PUBLISH"

\* ---- take-over, end to end --------------------------------------------------------
\* clients that keep to the protocol: CONNECT first and once, with good
\* credentials.  Connection 1 is client "A"; connection 2 sends its CONNECT
\* as client "A" while connection 1 is registered, and SUBSCRIBE to "t"
\* afterwards; connection 3 is client "B" and publishes on "t"
MessagesTakeOver(c) ==
    {m \in ConnectMsgs :
        /\ client_id[c] = None
        /\ m.client_id = (IF c = 3 THEN "B" ELSE "A")
        /\ (authentication_enabled <=> m.username = "u") /\ m.password \in {"", "p"}
        /\ c = 2 => ("A" \in DOMAIN connected_clients /\ connected_clients["A"] = 1)}
    \cup {m \in SubscribeMsgsQos1 :
            /\ c \in {1, 2} /\ c \in DOMAIN writer_to_client_id
            /\ Len(m.subscriptions) = 1 /\ m.subscriptions[1][1] = "t"}
    \cup {m \in PublishMsgs :
            /\ c = 3 /\ c \in DOMAIN writer_to_client_id
            /\ m.topic = "t" /\ m.qos \in {0, 1}}

NextTakeOver ==
    \/ \E c \in Conns : Accept(c)
    \/ \E c \in Conns : \E m \in MessagesTakeOver(c) : HandleMessage(c, m)
    \/ \E c \in Conns : ReadFail(c)
    \/ \E c \in Conns : Cleanup(c)
SpecTakeOver == InitThree /\ [][NextTakeOver]_vars

\* C24: when connection 2 CONNECTs with the client_id of the still-connected
\* connection 1, the stream of connection 1 is closed and connection 2
\* receives CONNACK with return_code 0; and once connection 2 has subscribed
\* to the topic, every PUBLISH on it by the other client is forwarded to
\* connection 2, before and after the cleanup of connection 1 has run.
TakeOverEndToEnd ==
    [][/\ \A m \in ConnectMsgs :
            (HandleConnect(2, m) /\ ~closed[1])
            => (closed'[1] /\ out'[2] = <<ConnAck(0, 0)>>)
       /\ \A m \in PublishMsgs :
            (/\ HandlePublish(3, m)
             /\ 2 \in DOMAIN writer_to_client_id /\ pc[2] = "reading" /\ ~closed[2]
             /\ 2 \in DOMAIN client_subscriptions /\ m.topic \in client_subscriptions[2])
            => out'[2] = <<m>>]_vars

\* ---- the remaining-length codec -----------------------------------------------------
\* a faulty encoder that never sets the continuation bit
RECURSIVE PackWithoutContinuation(_)
PackWithoutContinuation(length) ==
    IF length \div 128 > 0
    THEN <<length % 128>> \o PackWithoutContinuation(length \div 128)
    ELSE <<length % 128>>

\* utils.pack_remaining_length: digit = length % 128; length //= 128; the top
\* bit (digit |= 128) marks that more digits follow
RECURSIVE pack_remaining_length(_)
pack_remaining_length(length) ==
    LET digit == length % 128
        rest == length \div 128
    IN IF rest > 0
       THEN <<digit + 128>> \o pack_remaining_length(rest)
       ELSE <<digit>>

\* bitstructs.pack_remaining_length: b'\x00' for 0, otherwise the digits
\* remaining_length & 127 with remaining_length >>= 7 while it is > 0
RECURSIVE bitstructs_pack_loop(_)
bitstructs_pack_loop(remaining_length) ==
    IF remaining_length > 0
    THEN LET digit == remaining_length % 128
             rest == remaining_length \div 128
         IN <<IF rest > 0 THEN digit + 128 ELSE digit>> \o bitstructs_pack_loop(rest)
    ELSE <<>>
bitstructs_pack_remaining_length(remaining_length) ==
    IF remaining_length = 0 THEN <<0>> ELSE bitstructs_pack_loop(remaining_length)

\* one state of the loop of read_remaining_length: `consumed` bytes have been
\* read, and multiplier = Power128(consumed)
RECURSIVE Power128(_)
Power128(k) == IF k = 0 THEN 1 ELSE 128 * Power128(k - 1)

\* utils.read_remaining_length on a reader that holds `bytes` and then EOF:
\* readexactly(1) raises IncompleteReadError at EOF; the loop ends at the
\* first byte without the continuation bit, and at nothing else
RECURSIVE read_remaining_length(_, _, _, _)
read_remaining_length(bytes, consumed, value, eof) ==
    IF consumed = Len(bytes)
    THEN [value |-> value, consumed |-> consumed, error |-> eof]
    ELSE LET encoded_byte == bytes[consumed + 1]
             v == value + (encoded_byte % 128) * Power128(consumed)
         IN IF encoded_byte \div 128 = 0
            THEN [value |-> v, consumed |-> consumed + 1, error |-> "none"]
            ELSE read_remaining_length(bytes, consumed + 1, v, eof)

\* the two readers differ in the exception they raise at EOF
ReadResult(impl, bytes) ==
    read_remaining_length(bytes, 0, 0,
        IF impl = "utils" THEN "IncompleteReadError" ELSE "Header incomplete")

PackResult(impl, length) ==
    IF impl = "utils" THEN pack_remaining_length(length)
    ELSE bitstructs_pack_remaining_length(length)

\* the lengths that are packed: around every threshold of the encoding, and
\* the small ones
Lengths ==
    (0 .. 130) \cup (16382 .. 16386) \cup (2097150 .. 2097154)
    \cup (268435453 .. 268435455)

\* the bytes a peer may send as a remaining-length field, up to five of them
\* (a fifth byte below 8 keeps the decoded value within 32 bits)
ByteSamples == {0, 1, 127, 128, 255}
ByteSequences ==
    UNION {[1..n -> ByteSamples] : n \in 1..4}
    \cup {Append(b, last) : b \in [1..4 -> ByteSamples], last \in {0, 1, 7}}

InitCodec ==
    /\ InitBroker
    /\ pc = [c \in Conns |-> "unused"]
    /\ history = NoHistory({})
    /\ \E impl \in {"utils", "bitstructs"} :
          \/ \E n \in Lengths :
                codec = [NoCodec EXCEPT !.impl = impl, !.stage = "length", !.length = n]
          \/ \E b \in ByteSequences :
                codec = [NoCodec EXCEPT !.impl = impl, !.stage = "received", !.bytes = b]

\* pack_remaining_length is applied to the length
PackLength ==
    /\ codec.stage = "length"
    /\ codec' = [codec EXCEPT !.stage = "packed",
                              !.bytes = PackResult(codec.impl, codec.length)]
    /\ UNCHANGED <<authentication_enabled, broker, handler, pc, closed, out,
                   last_clean, history, lock, task>>

\* read_remaining_length is applied to the bytes, packed or received
ReadLength ==
    /\ codec.stage \in {"packed", "received"}
    /\ LET res == ReadResult(codec.impl, codec.bytes)
       IN codec' = [codec EXCEPT
                       !.stage = IF codec.stage = "packed" THEN "unpacked" ELSE "read",
                       !.value = res.value, !.consumed = res.consumed,
                       !.error = res.error]
    /\ UNCHANGED <<authentication_enabled, broker, handler, pc, closed, out,
                   last_clean, history, lock, task>>

NextCodec == PackLength \/ ReadLength
SpecCodec == InitCodec /\ [][NextCodec]_vars

\* C25: for the lengths n up to 268435455, pack_remaining_length(n) has 1
\* byte for n < 128, 2 bytes for n < 16384, 3 bytes for n < 2097152 and 4
\* bytes otherwise; every byte but the last has its top bit set, the last
\* has not; 0 is packed as the single byte 0; and read_remaining_length
\* applied to these bytes yields n (both implementations).
RemainingLengthRoundTrip ==
    /\ codec.stage \in {"packed", "unpacked"}
       => LET b == codec.bytes
              n == codec.length
          IN /\ Len(b) = (IF n < 128 THEN 1 ELSE IF n < 16384 THEN 2
                          ELSE IF n < 2097152 THEN 3 ELSE 4)
             /\ \A i \in 1..Len(b) : b[i] \in 0..255
             /\ \A i \in 1..(Len(b) - 1) : b[i] >= 128
             /\ b[Len(b)] < 128
             /\ (n = 0 => b = <<0>>)
    /\ codec.stage = "unpacked"
       => /\ codec.value = codec.length
          /\ codec.error = "none"
          /\ codec.consumed = Len(codec.bytes)

\* the largest length has been packed into four bytes and read back
RemainingLengthRoundTripWitness ==
    /\ codec.stage = "unpacked"
    /\ codec.length = 268435455
    /\ codec.bytes = <<255, 255, 255, 127>>
    /\ codec.value = 268435455

\* C26: read_remaining_length reads at most 4 bytes: when the fourth byte
\* still has its continuation bit set it fails as malformed instead of
\* reading a fifth byte, so the value it returns never exceeds 268435455.
RemainingLengthAtMostFourBytes ==
    codec.stage \in {"read", "unpacked"}
    => /\ codec.consumed <= 4
       /\ codec.error = "none" => codec.value <= 268435455
       /\ (Len(codec.bytes) >= 4 /\ \A i \in 1..4 : codec.bytes[i] >= 128)
          => codec.error = "malformed"

\* ---- CONNECT on the wire (ConnectMessage.from_data) -------------------------------
\* the body of a CONNECT as the peer sent it: the connect-flags byte and the
\* length-prefixed strings that follow the keep-alive; `missing` is the
\* number of bytes the length prefix announces beyond what the body holds
FlagSamples == {0, 2, 3, 194, 195}
WireString(text, missing) == [text |-> text, missing |-> missing]
StringLists ==
    {<<WireString("A", 0)>>,
     <<WireString("A", 1)>>,
     <<WireString("A", 0), WireString("u", 0), WireString("p", 0)>>,
     <<WireString("A", 0), WireString("u", 0), WireString("p", 1)>>}
ConnectDatas == [flags : FlagSamples, strings : StringLists]

\* a faulty parser that does not look at the reserved bit
FromDataIgnoresReserved(flags) == FALSE

\* "if reserved != 0: raise ValueError": reserved is the lowest bit of the
\* flags byte (CONNECT_FLAGS = 'u1u1u1u2u1u1u1')
ReservedCheckFails(flags) == flags % 2 # 0

\* utils.unpack_string on the i-th string of the body: ValueError when the
\* body has ended or holds fewer bytes than announced
unpack_string(strings, i) ==
    IF i > Len(strings) \/ strings[i].missing > 0
    THEN [error |-> TRUE, text |-> ""]
    ELSE [error |-> FALSE, text |-> strings[i].text]

\* ConnectMessage.from_data
connect_from_data(data) ==
    LET clean == (data.flags \div 2) % 2
        password_flag == (data.flags \div 64) % 2
        username_flag == (data.flags \div 128) % 2
        cid == unpack_string(data.strings, 1)
        un == IF username_flag = 1 THEN unpack_string(data.strings, 2)
              ELSE [error |-> FALSE, text |-> ""]
        pw == IF password_flag = 1 THEN unpack_string(data.strings, 2 + username_flag)
              ELSE [error |-> FALSE, text |-> ""]
    IN [error |-> ReservedCheckFails(data.flags) \/ cid.error \/ un.error \/ pw.error,
        message |-> [type |-> "CONNECT", client_id |-> cid.text,
                     clean_session |-> (clean = 1),
                     username |-> un.text, password |-> pw.text]]

\* one turn of the read loop on the bytes of a CONNECT: from_reader raises
\* and run() breaks, or handle_message handles the packet
Parsed == [data \in ConnectDatas |-> connect_from_data(data)]
ReceiveConnect(c, data) ==
    IF Parsed[data].error THEN ReadFail(c) ELSE HandleConnect(c, Parsed[data].message)

\* every connection sends CONNECT bodies, well-formed or not, and SUBSCRIBE
\* with one entry on topic "t"
NextWire ==
    \/ \E c \in Conns : Accept(c)
    \/ \E c \in Conns : \E data \in ConnectDatas : ReceiveConnect(c, data)
    \/ \E c \in Conns : \E m \in SubscribeMsgsQos1 :
          /\ Len(m.subscriptions) = 1 /\ m.subscriptions[1][1] = "t"
          /\ HandleSubscribe(c, m)
    \/ \E c \in Conns : Cleanup(c)
SpecWire == Init /\ [][NextWire]_vars

\* the body has the reserved flag bit set, or one of the strings its flags
\* call for (client id, then user name and password if flagged) announces
\* more bytes than the body holds
Malformed(data) ==
    \/ data.flags % 2 = 1
    \/ \E i \in DOMAIN data.strings :
          /\ i <= 1 + ((data.flags \div 128) % 2) + ((data.flags \div 64) % 2)
          /\ data.strings[i].missing > 0

\* the bodies that ConnectMessage.from_data rejects
RejectedDatas == {data \in ConnectDatas : Parsed[data].error}
MalformedDatas == {data \in ConnectDatas : Malformed(data)}

\* C27: a CONNECT with the reserved connect-flag bit 1, or with a
\* length-prefixed string that announces more bytes than the body holds, is
\* rejected by the codec; and a CONNECT that the codec rejects is answered
\* with nothing: no CONNACK or other packet is written, no registry, session
\* or handler field changes, no stream is closed by the step, and the
\* connection leaves its read loop for the cleanup section.
MalformedPacketClosesSilently ==
    [][/\ MalformedDatas \subseteq RejectedDatas
       /\ \A c \in Conns : \A data \in RejectedDatas :
             ReceiveConnect(c, data)
             => /\ out' = NoOut
                /\ UNCHANGED <<broker, handler, closed>>
                /\ pc'[c] = "cleanup"]_vars

\* a registered and subscribed connection has left its read loop, nothing
\* was written in that step, and it is still in the registries
MalformedPacketWitness ==
    \E c \in Conns :
        /\ pc[c] = "cleanup" /\ ~closed[c] /\ out = NoOut
        /\ c \in DOMAIN writer_to_client_id
        /\ c \in subscriptions["t"]

\* ---- the client program (connection/client.py) against the broker -----------------
\* Client.subscribe: "packet_id = 1"; Client.publish: "packet_id = 2"
SubscribePacketId == 1
PublishPacketId == 2

\* the connections 1 and 2 are held by two Client objects, "A" and "B"
ClientConns == {1, 2}
ClientName(c) == IF c = 1 THEN "A" ELSE "B"

\* every packet type is kept in the history of a client run
InitClient ==
    /\ InitBroker
    /\ pc = [c \in Conns |-> IF c \in ClientConns THEN "idle" ELSE "unused"]
    /\ history = NoHistory({"CONNECT", "CONNACK", "SUBSCRIBE", "SUBACK", "PUBLISH",
                            "PUBACK", "PUBREC", "PUBREL", "PUBCOMP"})
    /\ codec = NoCodec

\* Client.connect: CONNECT with clean_session=False; the flags of username and
\* password follow the constructor's arguments
ClientConnect(c) ==
    {[type |-> "CONNECT", client_id |-> ClientName(c), clean_session |-> FALSE,
      username |-> cr[1], password |-> cr[2]] : cr \in {<<"u", "p">>, <<"", "">>}}

\* Client.subscribe(topic, qos): one entry, packet_id 1
ClientSubscribe ==
    {[type |-> "SUBSCRIBE", packet_id |-> SubscribePacketId,
      subscriptions |-> <<<<"t", q>>>>] : q \in QoS}

\* Client.publish(topic, payload, qos): PublishMessage(packet_id=2), which the
\* broker parses with packet_id 0 at QoS 0
ClientPublish ==
    {[type |-> "PUBLISH", topic |-> "t", qos |-> q,
      packet_id |-> IF q = 0 THEN 0 ELSE PublishPacketId, payload |-> "m"] : q \in QoS}

\* The packet a Client sends next.  Every method but publish at QoS 0 writes one
\* packet and then reads one packet from the stream, so the i-th packet sent is
\* followed by the read of the i-th packet received; the next call starts when
\* that read has returned.  connect() returns False on a non-zero return code,
\* and the program ends; publish at QoS 2 answers the packet it read with
\* PubRelMessage(Header(PUBREL, qos=1), pubrec.packet_id).
ClientMessages(c) ==
    LET sent == history.sent[c]
        received == history.received[c]
        n == Len(sent)
    IN IF n = 0 THEN ClientConnect(c)
       ELSE IF Len(received) < n THEN {}
       ELSE IF sent[n].type = "CONNECT"
       THEN IF received[1].type = "CONNACK" /\ received[1].return_code = 0
            THEN ClientSubscribe \cup ClientPublish ELSE {}
       ELSE IF sent[n].type = "SUBSCRIBE" THEN ClientPublish
       ELSE IF sent[n].type = "PUBLISH" /\ sent[n].qos = 2
       THEN {PubRel(received[n].packet_id)}
       ELSE {}

NextClient ==
    \/ \E c \in Conns : Accept(c)
    \/ \E c \in ClientConns : \E m \in ClientMessages(c) : HandleMessage(c, m)
    \/ \E c \in Conns : ReadFail(c)
    \/ \E c \in Conns : Cleanup(c)
SpecClient == InitClient /\ [][NextClient]_vars

\* C28: the packet on which Client.publish returns at QoS 1 is the broker's
\* PUBACK for the published packet id; at QoS 2 the packet it reads first
\* is the PUBREC for that id, the PUBREL it sends carries the PUBREC's packet
\* id with fixed-header qos 1, and the packet on which it returns is the
\* PUBCOMP for that id.
ClientPublishFlows ==
    \A c \in ClientConns :
        LET sent == history.sent[c]
            received == history.received[c]
        IN \A k \in 1..Len(sent) :
            (sent[k].type = "PUBLISH" /\ Len(received) >= k) =>
                /\ sent[k].qos = 1 => received[k] = PubAck(sent[k].packet_id)
                /\ sent[k].qos = 2 =>
                    /\ received[k] = PubRec(sent[k].packet_id)
                    /\ Len(sent) > k => sent[k + 1] = PubRel(sent[k].packet_id)
                    /\ (Len(sent) > k /\ Len(received) > k)
                       => received[k + 1] = PubComp(sent[k].packet_id)

\* ---- session resolution ---------------------------------------------------------------
\* C29: for every CONNECT the broker accepts, after the handler the session of
\* its client_id is a fresh one (no subscriptions, no queued messages, no
\* queued message ids) when clean_session is set, whatever was stored before;
\* it is the stored session, unchanged, when clean_session is not set and a
\* session exists; and it is a fresh one when clean_session is not set and
\* no session exists.
SessionResolvedOnConnect ==
    \A c \in Conns : \A m \in ConnectMsgs :
        (pc[c] = "reading" /\ ConnectAccepted(m))
        => LET r == ConnectResult(c, m)
               id == m.client_id
           IN /\ id \in DOMAIN r.sessions
              /\ m.clean_session => r.sessions[id] = SessionData
              /\ (~m.clean_session /\ id \in DOMAIN sessions)
                 => r.sessions[id] = sessions[id]
              /\ (~m.clean_session /\ id \notin DOMAIN sessions)
                 => r.sessions[id] = SessionData

\* a connection has just been accepted with clean_session unset and resumed
\* a session that holds a subscription and a queued message
SessionResolvedOnConnectWitness ==
    \E c \in Conns :
        /\ pc[c] = "reading" /\ out[c] = <<ConnAck(0, 0)>>
        /\ client_id[c] = "A" /\ ~clean_session[c]
        /\ "A" \in DOMAIN sessions
        /\ sessions["A"].subscriptions # {}
        /\ sessions["A"].queued_messages # <<>>

\* ---- SUBSCRIBE and the session ---------------------------------------------------------
\* C30: when a connected client (its connection is the one registered for its
\* client_id, and its session exists) sends SUBSCRIBE, then after the
\* handler, for every entry whose topic the client is authorized for, the
\* handle is in subscriptions[topic], the topic is in
\* client_subscriptions[handle], and the topic is in
\* sessions[client_id].subscriptions, with clean_session set or not.
SubscribeReachesSession ==
    \A c \in Conns : \A m \in SubscribeMsgsQos1 :
        (/\ Registered(c) /\ ~closed[c]
         /\ client_id[c] \in DOMAIN connected_clients
         /\ connected_clients[client_id[c]] = c
         /\ client_id[c] \in DOMAIN sessions)
        => LET r == SubscribeResult(c, m)
           IN \A i \in DOMAIN m.subscriptions :
                LET topic == m.subscriptions[i][1]
                IN (~authentication_enabled
                    \/ is_topic_authorized(username[c], topic) = "True")
                   => /\ c \in r.subscriptions[topic]
                      /\ c \in DOMAIN r.client_subscriptions
                      /\ topic \in r.client_subscriptions[c]
                      /\ client_id[c] \in DOMAIN r.sessions
                      /\ topic \in r.sessions[client_id[c]].subscriptions

\* ---- duplicate subscriptions -------------------------------------------------------
\* the SUBSCRIBE packets with one entry, at every QoS
SubscribeMsgsOne == {m \in SubscribeMsgs : Len(m.subscriptions) = 1}

\* C31: when a connection in its read loop, with its stream open, sends
\* SUBSCRIBE for a topic it already subscribes to, then after the handler
\* subscriptions and client_subscriptions are as they were, the subscription
\* set of every session is as it was, and the first packet written to the
\* connection is the SUBACK whose return code is the QoS now requested.
SubscribeIdempotent ==
    \A c \in Conns : \A m \in SubscribeMsgsOne :
        (/\ pc[c] = "reading" /\ ~closed[c]
         /\ c \in DOMAIN client_subscriptions
         /\ m.subscriptions[1][1] \in client_subscriptions[c])
        => LET r == SubscribeResult(c, m)
           IN /\ r.subscriptions = subscriptions
              /\ r.client_subscriptions = client_subscriptions
              /\ DOMAIN r.sessions = DOMAIN sessions
              /\ \A id \in DOMAIN sessions :
                    r.sessions[id].subscriptions = sessions[id].subscriptions
              /\ Len(r.out[c]) >= 1
              /\ r.out[c][1] = SubAck(m.packet_id, <<m.subscriptions[1][2]>>)

\* a SUBSCRIBE whose two entries name the same topic has just been handled:
\* the second entry was a duplicate, and both return codes were recorded
SubscribeIdempotentWitness ==
    \E c \in Conns :
        /\ pc[c] = "reading" /\ ~closed[c]
        /\ out[c] = <<SubAck(1, <<1, 1>>)>>
        /\ c \in DOMAIN client_subscriptions /\ client_subscriptions[c] = {"t"}
        /\ c \in subscriptions["t"]

\* ---- the offline queue and its dedup keys -----------------------------------------
\* the dedup keys of the messages a session holds in its queue
QueuedKeys(session) ==
    {MessageId(session.queued_messages[i]) : i \in DOMAIN session.queued_messages}

\* C32: in every reachable state and for every session, queued_message_ids
\* is exactly the set of the dedup keys of the messages in queued_messages,
\* and no two messages in queued_messages have the same key (so a PUBLISH
\* sent again with the same packet_id, topic and payload is queued once, and
\* the flush empties both collections together).
QueueIdsInSync ==
    \A id \in DOMAIN sessions :
        LET session == sessions[id]
        IN /\ session.queued_message_ids = QueuedKeys(session)
           /\ \A i, j \in DOMAIN session.queued_messages :
                MessageId(session.queued_messages[i]) = MessageId(session.queued_messages[j])
                => i = j

\* a session holds one queued QoS 1 PUBLISH under its key, and the QoS 2
\* PUBLISH with the same packet_id, topic and payload that has just been
\* acknowledged with PUBREC was not queued again
QueueIdsInSyncWitness ==
    \E id \in DOMAIN sessions : \E c \in Conns :
        /\ id \notin DOMAIN connected_clients
        /\ "t" \in sessions[id].subscriptions
        /\ Len(sessions[id].queued_messages) = 1
        /\ sessions[id].queued_messages[1].qos = 1
        /\ sessions[id].queued_message_ids = {"1-t-m"}
        /\ out[c] = <<PubRec(1)>>

\* C33: whenever a step makes the offline queue of a session longer, it
\* appends one PUBLISH whose topic is in the subscription set the session had
\* before the step and whose QoS is 1 or 2; and a session that a step creates
\* starts with an empty queue.
QueuedOnlyWhenSubscribed ==
    [][\A id \in DOMAIN sessions' :
          IF id \in DOMAIN sessions
          THEN LET old == sessions[id].queued_messages
                   new == sessions'[id].queued_messages
               IN Len(new) > Len(old)
                  => /\ Len(new) = Len(old) + 1
                     /\ SubSeq(new, 1, Len(old)) = old
                     /\ new[Len(new)].type = "PUBLISH"
                     /\ new[Len(new)].topic \in sessions[id].subscriptions
                     /\ new[Len(new)].qos \in {1, 2}
          ELSE sessions'[id].queued_messages = <<>>]_vars

\* a PUBLISH on "s" has just been acknowledged and stands in the queue of an
\* offline session that subscribes to "s" and not to "t"
QueuedOnlyWhenSubscribedWitness ==
    \E id \in DOMAIN sessions : \E c \in Conns :
        /\ id \notin DOMAIN connected_clients
        /\ sessions[id].subscriptions = {"s"}
        /\ Len(sessions[id].queued_messages) = 1
        /\ sessions[id].queued_messages[1].topic = "s"
        /\ pc[c] = "reading" /\ out[c] = <<PubAck(1)>>

\* ---- the broker lock -------------------------------------------------------------
\* The handlers run as one task per connection.  Inside `async with
\* self.broker.lock` a handler gives the event loop up at every await
\* (drain, wait_closed); the stretches between two awaits run without
\* interruption.  Below, a handler is the sequence: ask for the lock, run its
\* stretches one by one, release.

\* handle_pubcomp and handle_pingresp log and return; every other handler,
\* and the cleanup section of run(), enters `async with self.broker.lock`
TakesLock(m) == m.type \notin {"PUBCOMP", "PINGRESP"}

\* a faulty acquire that does not look at the state of the lock
AcquireWithoutLooking(c) == TRUE

\* asyncio.Lock.acquire returns at once when the lock is unlocked and no
\* task waits for it; otherwise the task joins the waiters
CanAcquire(c) == lock.holder = 0 /\ lock.waiters = <<>>

\* a faulty exit that keeps the lock when an exception leaves the handler
ReleaseUnlessRaised(c) ==
    IF task[c].raised THEN lock ELSE [lock EXCEPT !.holder = 0]

\* `async with` releases on every way out of its body: return, the early
\* return of a rejected CONNECT, and an exception
ReleaseLock(c) == [lock EXCEPT !.holder = 0]

\* the registries and streams as a handler leaves them
Registries(r) ==
    [subscriptions |-> r.subscriptions, client_subscriptions |-> r.client_subscriptions,
     sessions |-> r.sessions, connected_clients |-> r.connected_clients,
     writer_to_client_id |-> r.writer_to_client_id, closed |-> r.closed]

\* what the handler of m does to the registries when nothing runs in between
AtomicResult(c, m) ==
    IF m.type = "CONNECT" THEN ConnectResult(c, m)
    ELSE IF m.type = "SUBSCRIBE" THEN SubscribeResult(c, m)
    ELSE IF m.type = "UNSUBSCRIBE" THEN UnsubscribeResult(c, m)
    ELSE IF m.type = "PUBLISH" THEN PublishResult(c, m)
    ELSE IF m.type = "CLEANUP" THEN CleanupResult(c)
    ELSE OtherResult(c, m)

\* handle_connect up to `await old_writer.wait_closed()`, or to its end when
\* no connection is taken over
ConnectSegment(c, m) ==
    IF ~ConnectAccepted(m) THEN [r |-> RejectConnect(Start, c), more |-> FALSE]
    ELSE LET r1 == ResolveSession(Start, m.client_id, m.clean_session)
         IN IF TakeOverGuard(r1, m.client_id, m.clean_session)
            THEN [r |-> TakeOver(r1, m.client_id, m.clean_session), more |-> TRUE]
            ELSE [r |-> Write(Register(r1, c, m.client_id), c, ConnAck(0, 0)),
                  more |-> FALSE]

\* handle_subscribe up to the drain() of the SUBACK
SubscribeSegment(c, m) ==
    LET st == SubscribeLoop(c, m.subscriptions, 1, [r |-> Start, granted_qos |-> <<>>])
    IN IF st.r.raised THEN [r |-> st.r, more |-> FALSE]
       ELSE [r |-> Write(st.r, c, SubAck(m.packet_id, st.granted_qos)), more |-> TRUE]

\* handle_publish up to the drain() of the last forwarded copy, or to its end
\* when there is nobody to forward to
PublishSegment(c, m) ==
    IF FanOutTargets(Start, c, m.topic) = {}
    THEN [r |-> PublishResult(c, m), more |-> FALSE]
    ELSE [r |-> FanOut(Start, c, m), more |-> TRUE]

\* the k-th stretch of the handler of m, and whether another one follows
SegmentResult(c, m, k) ==
    IF m.type = "CONNECT"
    THEN IF k = 1 THEN ConnectSegment(c, m)
         ELSE [r |-> Write(Register(Start, c, m.client_id), c, ConnAck(0, 0)),
               more |-> FALSE]
    ELSE IF m.type = "SUBSCRIBE"
    THEN IF k = 1 THEN SubscribeSegment(c, m)
         ELSE [r |-> FlushQueue(Start, c), more |-> FALSE]
    ELSE IF m.type = "PUBLISH"
    THEN IF k = 1 THEN PublishSegment(c, m)
         ELSE [r |-> PublishAck(QueueOffline(Start, m), c, m), more |-> FALSE]
    ELSE [r |-> AtomicResult(c, m), more |-> FALSE]

\* the handler has the lock: what it is to leave behind is fixed now
Locked(c, m) ==
    [stage |-> "locked", msg |-> m, segment |-> 0, raised |-> FALSE,
     expect |-> Registries(AtomicResult(c, m))]

\* `async with self.broker.lock` is reached with m in hand
Request(c, m) ==
    /\ task[c].stage = "none"
    /\ IF CanAcquire(c)
       THEN /\ lock' = [lock EXCEPT !.holder = c]
            /\ task' = [task EXCEPT ![c] = Locked(c, m)]
       ELSE /\ lock' = [lock EXCEPT !.waiters = Append(@, c)]
            /\ task' = [task EXCEPT ![c] = [NoHandler EXCEPT !.stage = "waiting",
                                                             !.msg = m]]
    /\ out' = NoOut
    /\ UNCHANGED <<authentication_enabled, broker, handler, pc, closed, last_clean,
                   history, codec>>

\* run(): a packet has been read and handle_message dispatches it
Dispatch(c, m) ==
    /\ pc[c] = "reading"
    /\ task[c].stage = "none"
    /\ IF TakesLock(m) THEN Request(c, m) ELSE HandleOther(c, m)

\* run(): the read failed while no handler of the connection is under way
ReadFails(c) == task[c].stage = "none" /\ ReadFail(c)

\* run(): the loop is left and the cleanup section asks for the lock
RequestCleanup(c) == pc[c] = "cleanup" /\ Request(c, [type |-> "CLEANUP"])

\* asyncio.Lock.release wakes the first waiter, which takes the lock
Wake(c) ==
    /\ lock.holder = 0
    /\ lock.waiters # <<>> /\ Head(lock.waiters) = c
    /\ lock' = [holder |-> c, waiters |-> Tail(lock.waiters)]
    /\ task' = [task EXCEPT ![c] = Locked(c, task[c].msg)]
    /\ out' = NoOut
    /\ UNCHANGED <<authentication_enabled, broker, handler, pc, closed, last_clean,
                   history, codec>>

\* one stretch of the handler between two awaits
RunSegment(c) ==
    /\ task[c].stage = "locked"
    /\ LET m == task[c].msg
           k == task[c].segment + 1
           s == SegmentResult(c, m, k)
       IN /\ subscriptions' = s.r.subscriptions
          /\ client_subscriptions' = s.r.client_subscriptions
          /\ sessions' = s.r.sessions
          /\ connected_clients' = s.r.connected_clients
          /\ writer_to_client_id' = s.r.writer_to_client_id
          /\ closed' = s.r.closed
          /\ out' = s.r.out
          /\ task' = [task EXCEPT ![c].segment = k,
                                  ![c].raised = s.r.raised,
                                  ![c].stage = IF s.more /\ ~s.r.raised
                                               THEN "locked" ELSE "draining"]
          /\ IF m.type = "CONNECT" /\ k = 1
             THEN /\ client_id' = [client_id EXCEPT ![c] = m.client_id]
                  /\ username' = [username EXCEPT ![c] = m.username]
                  /\ clean_session' = [clean_session EXCEPT ![c] = m.clean_session]
                  /\ last_clean' = IF ConnectAccepted(m)
                                   THEN [last_clean EXCEPT ![m.client_id] =
                                            IF m.clean_session THEN "clean"
                                            ELSE "persistent"]
                                   ELSE last_clean
             ELSE UNCHANGED <<handler, last_clean>>
    /\ UNCHANGED <<authentication_enabled, pc, history, codec, lock>>

\* the last await of the handler has returned and `async with` is left
Release(c) ==
    /\ task[c].stage = "draining"
    /\ lock' = ReleaseLock(c)
    /\ pc' = [pc EXCEPT ![c] = IF task[c].msg.type = "CLEANUP" THEN "done"
                               ELSE IF task[c].raised THEN "cleanup" ELSE "reading"]
    /\ task' = [task EXCEPT ![c] = NoHandler]
    /\ IF task[c].msg.type = "CLEANUP"
       THEN /\ client_id' = [client_id EXCEPT ![c] = None]
            /\ username' = [username EXCEPT ![c] = None]
            /\ clean_session' = [clean_session EXCEPT ![c] = TRUE]
       ELSE UNCHANGED handler
    /\ out' = NoOut
    /\ UNCHANGED <<authentication_enabled, broker, closed, last_clean, history, codec>>

\* Connections 1 and 2 are client "A" with a persistent session: CONNECT
\* once, then SUBSCRIBE to "t" while not subscribed.  Connection 3 is client
\* "B": CONNECT once, then PUBLISH on "t" at QoS 1, and PUBCOMP.
MessagesLock(c) ==
    {m \in ConnectMsgs :
        /\ client_id[c] = None
        /\ m.client_id = (IF c = 3 THEN "B" ELSE "A") /\ (m.clean_session <=> c = 3)
        /\ (authentication_enabled <=> m.username = "u") /\ m.password \in {"", "p"}}
    \cup {m \in SubscribeMsgsQos1 :
            /\ c \in {1, 2} /\ c \in DOMAIN writer_to_client_id
            /\ (c \in DOMAIN client_subscriptions => "t" \notin client_subscriptions[c])
            /\ Len(m.subscriptions) = 1 /\ m.subscriptions[1][1] = "t"}
    \cup {m \in PublishMsgs :
            c = 3 /\ c \in DOMAIN writer_to_client_id /\ m.topic = "t" /\ m.qos = 1}
    \cup {m \in AckMsgs : c = 3 /\ client_id[c] # None /\ m.type = "PUBCOMP"}

NextLock ==
    \/ \E c \in Conns : Accept(c)
    \/ \E c \in Conns : \E m \in MessagesLock(c) : Dispatch(c, m)
    \/ \E c \in Conns : ReadFails(c)
    \/ \E c \in Conns : RequestCleanup(c)
    \/ \E c \in Conns : Wake(c)
    \/ \E c \in Conns : RunSegment(c)
    \/ \E c \in Conns : Release(c)
SpecLock == InitThree /\ [][NextLock]_vars

\* the handler of c is inside `async with self.broker.lock`
HoldsLock(c) == task[c].stage \in {"locked", "draining"}

SpecLockFair ==
    /\ InitThree /\ [][NextLock]_vars
    /\ WF_vars(\E c \in Conns : RunSegment(c) \/ Release(c) \/ Wake(c))
    /\ \A c \in Conns : WF_vars(RequestCleanup(c))

to_bytes(n) == <<(n \div 256) % 256, n % 256>>

\* utils.pack_string: two length bytes, then the encoded text
pack_string(s) == to_bytes(Len(s)) \o s

\* a faulty PUBLISH encoder that writes the packet identifier at every QoS
PackPublishAlwaysId(p) == pack_string(p.topic) \o to_bytes(p.packet_id) \o p.payload

\* PublishMessage.pack, without the fixed header and the remaining length
pack_publish(p) ==
    pack_string(p.topic)
    \o (IF p.header.qos > 0 THEN to_bytes(p.packet_id) ELSE <<>>)
    \o p.payload

\* CONNECT_FLAGS.pack(...), the reserved bit 0
pack_connect_flags(p) ==
    p.username_flag * 128 + p.password_flag * 64 + p.will_retain * 32
    + p.will_qos * 8 + p.will_flag * 4 + p.clean_session * 2

\* ConnectMessage.pack, without the fixed header and the remaining length
pack_connect(p) ==
    pack_string(p.protocol_name) \o <<p.protocol_level>> \o <<pack_connect_flags(p)>>
    \o to_bytes(p.keep_alive) \o pack_string(p.client_id)
    \o (IF p.username_flag = 1 THEN pack_string(p.username) ELSE <<>>)
    \o (IF p.password_flag = 1 THEN pack_string(p.password) ELSE <<>>)

\* SubscribeMessage.pack: for topic, qos in subscriptions
RECURSIVE pack_subscriptions(_, _)
pack_subscriptions(subs, i) ==
    IF i > Len(subs) THEN <<>>
    ELSE pack_string(subs[i][1]) \o <<subs[i][2] % 4>> \o pack_subscriptions(subs, i + 1)

\* UnsubscribeMessage.pack: for topic in self.topics
RECURSIVE pack_topics(_, _)
pack_topics(topics, i) ==
    IF i > Len(topics) THEN <<>> ELSE pack_string(topics[i]) \o pack_topics(topics, i + 1)

\* pack() of each packet type: the body that follows the remaining length
pack_body(p) ==
    IF p.header.type = "PUBLISH" THEN pack_publish(p)
    ELSE IF p.header.type = "CONNECT" THEN pack_connect(p)
    ELSE IF p.header.type = "CONNACK" THEN <<p.session_present % 2, p.return_code % 256>>
    ELSE IF p.header.type = "SUBSCRIBE"
    THEN to_bytes(p.packet_id) \o pack_subscriptions(p.subscriptions, 1)
    ELSE IF p.header.type = "SUBACK" THEN to_bytes(p.packet_id) \o p.return_codes
    ELSE IF p.header.type = "UNSUBSCRIBE"
    THEN to_bytes(p.packet_id) \o pack_topics(p.topics, 1)
    ELSE IF p.header.type \in {"PINGREQ", "DISCONNECT"} THEN <<>>
    ELSE to_bytes(p.packet_id)

\* MessageType: the control packet types and their values on the wire
MessageTypes ==
    {"CONNECT", "CONNACK", "PUBLISH", "PUBACK", "PUBREL", "SUBSCRIBE", "SUBACK",
     "UNSUBSCRIBE", "PINGREQ", "DISCONNECT"}
TypeCode(type) ==
    IF type = "CONNECT" THEN 1 ELSE IF type = "CONNACK" THEN 2
    ELSE IF type = "PUBLISH" THEN 3 ELSE IF type = "PUBACK" THEN 4
    ELSE IF type = "PUBREL" THEN 6 ELSE IF type = "SUBSCRIBE" THEN 8
    ELSE IF type = "SUBACK" THEN 9 ELSE IF type = "UNSUBSCRIBE" THEN 10
    ELSE IF type = "PINGREQ" THEN 12 ELSE 14

\* Header.pack and Header.from_bytes: u4 type, u1 dup, u2 qos, u1 retain
header_pack(h) == TypeCode(h.type) * 16 + h.dup * 8 + h.qos * 2 + h.retain
header_from_bytes(b) ==
    [type |-> CHOOSE ty \in MessageTypes : TypeCode(ty) = b \div 16,
     dup |-> (b \div 8) % 2, qos |-> (b \div 2) % 4, retain |-> b % 2]

\* data.read(n) at position pos (the index of the next byte): short reads are errors
read_bytes(data, pos, n) ==
    IF pos + n - 1 > Len(data) THEN [error |-> TRUE, value |-> <<>>, pos |-> pos]
    ELSE [error |-> FALSE, value |-> SubSeq(data, pos, pos + n - 1), pos |-> pos + n]

\* utils.unpack_string on bytes
read_string(data, pos) ==
    LET len == read_bytes(data, pos, 2)
    IN IF len.error THEN len
       ELSE read_bytes(data, len.pos, len.value[1] * 256 + len.value[2])

\* SubscribeMessage.from_data: topic and QoS pairs until no more data
RECURSIVE read_subscriptions(_, _, _)
read_subscriptions(data, pos, subs) ==
    IF pos > Len(data) THEN [error |-> FALSE, value |-> subs]
    ELSE LET topic == read_string(data, pos)
         IN IF topic.error \/ topic.pos > Len(data) THEN [error |-> TRUE, value |-> subs]
            ELSE read_subscriptions(data, topic.pos + 1,
                                    Append(subs, <<topic.value, data[topic.pos] % 4>>))

Failed == [error |-> TRUE, message |-> [type |-> "none"]]

\* PublishMessage.from_data
publish_from_data(header, data) ==
    LET topic == read_string(data, 1)
        pid == IF topic.error THEN topic
               ELSE IF header.qos > 0 THEN read_bytes(data, topic.pos, 2)
               ELSE [error |-> FALSE, value |-> <<0, 0>>, pos |-> topic.pos]
    IN IF topic.error \/ pid.error THEN Failed
       ELSE [error |-> FALSE,
             message |-> [header |-> header, topic |-> topic.value,
                          packet_id |-> pid.value[1] * 256 + pid.value[2],
                          payload |-> SubSeq(data, pid.pos, Len(data))]]

\* ConnectMessage.from_data on bytes
connect_from_bytes(header, data) ==
    LET name == read_string(data, 1)
        fixed == IF name.error THEN name ELSE read_bytes(data, name.pos, 4)
        flags == IF fixed.error THEN 1 ELSE fixed.value[2]
        id == IF fixed.error THEN fixed ELSE read_string(data, fixed.pos)
        user == IF id.error THEN id
                ELSE IF flags \div 128 = 1 THEN read_string(data, id.pos)
                ELSE [error |-> FALSE, value |-> <<>>, pos |-> id.pos]
        pass == IF user.error THEN user
                ELSE IF (flags \div 64) % 2 = 1 THEN read_string(data, user.pos)
                ELSE [error |-> FALSE, value |-> <<>>, pos |-> user.pos]
    IN IF pass.error \/ flags % 2 # 0 THEN Failed
       ELSE [error |-> FALSE,
             message |-> [header |-> header, protocol_name |-> name.value,
                          protocol_level |-> fixed.value[1],
                          username_flag |-> flags \div 128,
                          password_flag |-> (flags \div 64) % 2,
                          will_retain |-> (flags \div 32) % 2,
                          will_qos |-> (flags \div 8) % 4,
                          will_flag |-> (flags \div 4) % 2,
                          clean_session |-> (flags \div 2) % 2,
                          keep_alive |-> fixed.value[3] * 256 + fixed.value[4],
                          client_id |-> id.value, username |-> user.value,
                          password |-> pass.value]]

\* UnsubscribeMessage.from_data: topics until no more data
RECURSIVE read_topics(_, _, _)
read_topics(data, pos, topics) ==
    IF pos > Len(data) THEN [error |-> FALSE, value |-> topics]
    ELSE LET topic == read_string(data, pos)
         IN IF topic.error THEN [error |-> TRUE, value |-> topics]
            ELSE read_topics(data, topic.pos, Append(topics, topic.value))

\* the from_data of the packets that start with a packet identifier
identified_from_data(header, data) ==
    LET pid == read_bytes(data, 1, 2)
        packet_id == pid.value[1] * 256 + pid.value[2]
        subs == read_subscriptions(data, 3, <<>>)
        topics == read_topics(data, 3, <<>>)
    IN IF pid.error THEN Failed
       ELSE IF header.type = "SUBSCRIBE"
       THEN IF subs.error THEN Failed
            ELSE [error |-> FALSE,
                  message |-> [header |-> header, packet_id |-> packet_id,
                               subscriptions |-> subs.value]]
       ELSE IF header.type = "UNSUBSCRIBE"
       THEN IF topics.error THEN Failed
            ELSE [error |-> FALSE,
                  message |-> [header |-> header, packet_id |-> packet_id,
                               topics |-> topics.value]]
       ELSE IF header.type = "SUBACK"
       THEN [error |-> FALSE,
             message |-> [header |-> header, packet_id |-> packet_id,
                          return_codes |-> SubSeq(data, 3, Len(data))]]
       ELSE [error |-> FALSE, message |-> [header |-> header, packet_id |-> packet_id]]

\* MessageFactory.get_message_class(header.message_type).from_data(header, data)
from_data(header, data) ==
    IF header.type = "PUBLISH" THEN publish_from_data(header, data)
    ELSE IF header.type = "CONNECT" THEN connect_from_bytes(header, data)
    ELSE IF header.type = "CONNACK"
    THEN IF Len(data) < 2 THEN Failed
         ELSE [error |-> FALSE,
               message |-> [header |-> header, session_present |-> data[1] % 2,
                            return_code |-> data[2]]]
    ELSE IF header.type \in {"PINGREQ", "DISCONNECT"}
    THEN [error |-> FALSE, message |-> [header |-> header]]
    ELSE identified_from_data(header, data)

\* sample texts "", "t" and "a/b" as UTF-8 bytes, and sample packet identifiers
Texts == {<<>>, <<116>>, <<97, 47, 98>>}
WireIds == {0, 1, 256, 65535}

\* the packet objects the codecs are applied to, legal or not
PublishPackets ==
    {[header |-> [type |-> "PUBLISH", dup |-> d, qos |-> q, retain |-> r],
      topic |-> t, packet_id |-> i, payload |-> pl] :
        d \in {0, 1}, q \in 0..2, r \in {0, 1}, t \in Texts, i \in WireIds,
        pl \in {<<>>, <<109>>, <<0, 1>>}}
ConnectPackets ==
    {[header |-> [type |-> "CONNECT", dup |-> 0, qos |-> 0, retain |-> 0],
      protocol_name |-> <<77, 81, 84, 84>>, protocol_level |-> 4,
      username_flag |-> f[1], password_flag |-> f[2], will_retain |-> 0,
      will_qos |-> f[3], will_flag |-> 0, clean_session |-> f[4],
      keep_alive |-> ka, client_id |-> id, username |-> u, password |-> pw] :
        f \in {0, 1} \X {0, 1} \X {0, 1} \X {0, 1}, ka \in {0, 60, 65535},
        id \in {<<>>, <<65>>}, u \in {<<>>, <<117>>}, pw \in {<<>>, <<112>>}}
SubscriptionLists ==
    LET entries == {<<t, q>> : t \in {<<>>, <<116>>}, q \in {0, 1, 2, 4}}
    IN {<<>>} \cup {<<e>> : e \in entries} \cup {<<e, f>> : e \in entries, f \in entries}
OtherPackets ==
    {[header |-> [type |-> "SUBSCRIBE", dup |-> 0, qos |-> 1, retain |-> 0],
      packet_id |-> i, subscriptions |-> s] : i \in {1, 65535}, s \in SubscriptionLists}
    \cup {[header |-> [type |-> "UNSUBSCRIBE", dup |-> 0, qos |-> 1, retain |-> 0],
           packet_id |-> i, topics |-> t] :
             i \in {1, 65535}, t \in {<<>>, <<<<116>>>>, <<<<116>>, <<>>>>}}
    \cup {[header |-> [type |-> "SUBACK", dup |-> 0, qos |-> 0, retain |-> 0],
           packet_id |-> i, return_codes |-> rc] :
             i \in {1, 65535}, rc \in {<<>>, <<0>>, <<1, 128>>}}
    \cup {[header |-> [type |-> "CONNACK", dup |-> 0, qos |-> 0, retain |-> 0],
           session_present |-> sp, return_code |-> rc] :
             sp \in {0, 1}, rc \in {0, 4, 5, 255}}
    \cup {[header |-> [type |-> ty, dup |-> 0, qos |-> IF ty = "PUBREL" THEN 1 ELSE 0,
                       retain |-> 0],
           packet_id |-> i] : ty \in {"PUBACK", "PUBREL"}, i \in WireIds}
    \cup {[header |-> [type |-> ty, dup |-> 0, qos |-> 0, retain |-> 0]] :
             ty \in {"PINGREQ", "DISCONNECT"}}
Packets == PublishPackets \cup ConnectPackets \cup OtherPackets

\* a packet object is given; the broker is idle
InitPackets ==
    /\ InitBroker
    /\ pc = [c \in Conns |-> "unused"]
    /\ history = NoHistory({})
    /\ \E p \in Packets :
          codec = [impl |-> "messages", stage |-> "object", packet |-> p,
                   first |-> 0, body |-> <<>>, result |-> Failed]

\* pack(): the first byte of the fixed header and the body
PackPacket ==
    /\ codec.stage = "object"
    /\ codec' = [codec EXCEPT !.stage = "wire",
                              !.first = header_pack(codec.packet.header),
                              !.body = pack_body(codec.packet)]
    /\ UNCHANGED <<authentication_enabled, broker, handler, pc, closed, out,
                   last_clean, history, lock, task>>

\* Message.from_reader: Header.from_bytes on the first byte, from_data on the body
DecodePacket ==
    /\ codec.stage = "wire"
    /\ codec' = [codec EXCEPT !.stage = "decoded",
                              !.result = from_data(header_from_bytes(codec.first),
                                                   codec.body)]
    /\ UNCHANGED <<authentication_enabled, broker, handler, pc, closed, out,
                   last_clean, history, lock, task>>

NextPackets == PackPacket \/ DecodePacket
SpecPackets == InitPackets /\ [][NextPackets]_vars

\* the legal field values: no packet identifier at QoS 0, no username or
\* password without its flag, requested QoS values of two bits
LegalPacket(p) ==
    /\ p.header.type = "PUBLISH" => (p.header.qos = 0 => p.packet_id = 0)
    /\ p.header.type = "CONNECT" =>
          /\ p.username_flag = 0 => p.username = <<>>
          /\ p.password_flag = 0 => p.password = <<>>
    /\ p.header.type = "SUBSCRIBE" =>
          \A i \in 1..Len(p.subscriptions) : p.subscriptions[i][2] \in 0..3

\* the length of the body of a PUBLISH or CONNECT with the optional fields f
BodyLength(p) ==
    IF p.header.type = "PUBLISH"
    THEN 2 + Len(p.topic) + (IF p.header.qos > 0 THEN 2 ELSE 0) + Len(p.payload)
    ELSE 2 + Len(p.protocol_name) + 4 + 2 + Len(p.client_id)
         + (IF p.username_flag = 1 THEN 2 + Len(p.username) ELSE 0)
         + (IF p.password_flag = 1 THEN 2 + Len(p.password) ELSE 0)

RECURSIVE ListenAnswers(_, _)
ListenAnswers(received, i) ==
    IF i > Len(received) THEN <<>>
    ELSE LET pkt == received[i]
             answer == IF pkt.type = "PUBLISH" /\ pkt.qos = 1 THEN <<PubAck(pkt.packet_id)>>
                       ELSE IF pkt.type = "PUBLISH" /\ pkt.qos = 2
                       THEN <<PubRec(pkt.packet_id)>>
                       ELSE IF pkt.type = "PUBREL" THEN <<PubComp(pkt.packet_id)>>
                       ELSE <<>>
         IN answer \o ListenAnswers(received, i + 1)

\* The packet the Client on connection 1 sends next: connect(), then
\* subscribe("t", qos), each reading one packet, then listen().
ListenerMessages(c) ==
    LET sent == history.sent[c]
        received == history.received[c]
        n == Len(sent)
        answers == ListenAnswers(received, 3)
    IN IF n = 0 THEN ClientConnect(c)
       ELSE IF Len(received) < 2 /\ Len(received) < n THEN {}
       ELSE IF n = 1
       THEN IF received[1].type = "CONNACK" /\ received[1].return_code = 0
            THEN ClientSubscribe ELSE {}
       ELSE IF Len(answers) > n - 2 THEN {answers[n - 1]} ELSE {}

\* the Client on connection 2 connects and publishes twice on "t"
PublisherMessages(c) ==
    LET sent == history.sent[c]
    IN IF sent = <<>> THEN ClientConnect(c)
       ELSE IF Len(history.received[c]) >= Len(sent) /\ Len(sent) < 3
       THEN ClientPublish ELSE {}

NextListen ==
    \/ \E c \in ClientConns : Accept(c)
    \/ \E m \in ListenerMessages(1) : HandleMessage(1, m)
    \/ \E m \in PublisherMessages(2) : HandleMessage(2, m)
    \/ ReadFail(2)
    \/ Cleanup(2)
SpecListen == InitClient /\ [][NextListen]_vars

OfType(seq, types) == SelectSeq(seq, LAMBDA pkt : pkt.type \in types)

\* C36: a listening client answers a received QoS 1 PUBLISH with
\* PUBACK(id) and a QoS 2 PUBLISH with PUBREC(id); the broker answers each
\* PUBREC with PUBREL(id); the client answers each PUBREL with PUBCOMP(id);
\* the broker writes nothing in reply to PUBACK or PUBCOMP, so that every
\* forwarded PUBLISH causes at most three further packets; and the broker
\* neither closes the listener's connection nor ends its handler.
SubscriberFlow ==
    LET sent == history.sent[1]
        received == history.received[1]
        pubs == SelectSeq(received, LAMBDA pkt : pkt.type = "PUBLISH" /\ pkt.qos > 0)
        acks == OfType(sent, {"PUBACK", "PUBREC"})
        recs == OfType(sent, {"PUBREC"})
        rels == OfType(received, {"PUBREL"})
        comps == OfType(sent, {"PUBCOMP"})
    IN /\ Len(acks) <= Len(pubs)
       /\ \A k \in 1..Len(acks) :
             acks[k] = IF pubs[k].qos = 1 THEN PubAck(pubs[k].packet_id)
                       ELSE PubRec(pubs[k].packet_id)
       /\ Len(rels) = Len(recs)
       /\ \A k \in 1..Len(rels) : rels[k] = PubRel(recs[k].packet_id)
       /\ Len(comps) <= Len(rels)
       /\ \A k \in 1..Len(comps) : comps[k] = PubComp(rels[k].packet_id)
       /\ \A k \in 1..Len(received) :
             received[k].type \in {"CONNACK", "SUBACK", "PUBLISH", "PUBREL"}
       /\ Len(sent) >= 2 => pc[1] = "reading" /\ ~closed[1]

\* the listener has been forwarded a QoS 1 and a QoS 2 PUBLISH and has
\* answered them with PUBACK, PUBREC and, after the broker's PUBREL, PUBCOMP
SubscriberFlowWitness ==
    /\ OfType(history.sent[1], {"PUBACK", "PUBREC", "PUBCOMP"})
          = <<PubAck(PublishPacketId), PubRec(PublishPacketId), PubComp(PublishPacketId)>>
    /\ OfType(history.received[1], {"PUBREL"}) = <<PubRel(PublishPacketId)>>
    /\ out = NoOut

\* ---- a rejected CONNECT next to a legitimate client -----------------------------------
\* three clients will connect; the CONNACK packets are kept in history
InitReject ==
    /\ InitBroker
    /\ pc = [c \in Conns |-> "idle"]
    /\ history = NoHistory({"CONNACK"})
    /\ codec = NoCodec

\* Connection 1 is client "A" with a persistent session and valid credentials,
\* subscribing to "t"; connection 2 names client "A" with a wrong password and
\* goes on to send PUBLISH, SUBSCRIBE and UNSUBSCRIBE; connection 3 is client
\* "B", publishing on "t" at QoS 1.
MessagesReject(c) ==
    {m \in ConnectMsgs :
        /\ client_id[c] = None
        /\ m.client_id = (IF c = 3 THEN "B" ELSE "A")
        /\ m.username = "u" /\ m.password = (IF c = 2 THEN "wrong" ELSE "p")
        /\ c # 2 => ~m.clean_session}
    \cup {m \in SubscribeMsgsQos1 :
            /\ client_id[c] # None /\ c # 3
            /\ Len(m.subscriptions) = 1 /\ m.subscriptions[1][1] = "t"}
    \cup {m \in UnsubscribeMsgs :
            client_id[c] # None /\ c = 2 /\ m.topics = <<"t">>}
    \cup {m \in PublishMsgs :
            client_id[c] # None /\ c # 1 /\ m.topic = "t" /\ m.qos = 1}

NextReject ==
    \/ \E c \in Conns : Accept(c)
    \/ \E c \in Conns : \E m \in MessagesReject(c) : HandleMessage(c, m)
    \/ \E c \in Conns : ReadFail(c)
    \/ \E c \in Conns : Cleanup(c)
SpecReject == InitReject /\ [][NextReject]_vars

\* the CONNECT of connection c was answered with a non-zero return code
Rejected(c) ==
    /\ history.received[c] # <<>>
    /\ history.received[c][1].return_code # 0

\* registry r holds for client id the session and the connection of the
\* current state
KeepsClient(r, id) ==
    /\ id \in DOMAIN sessions =>
          id \in DOMAIN r.sessions /\ r.sessions[id] = sessions[id]
    /\ id \in DOMAIN connected_clients =>
          /\ id \in DOMAIN r.connected_clients
          /\ r.connected_clients[id] = connected_clients[id]

\* C37: with authentication enabled, a rejected CONNECT that names the
\* client_id of a stored session or of a connected client leaves that session
\* (subscriptions and queue) and connected_clients[client_id] as they are, and
\* so does the cleanup of the rejected connection.
RejectedConnectHarmless ==
    authentication_enabled =>
        \A c \in Conns :
            /\ pc[c] = "reading" =>
                  \A m \in ConnectMsgs :
                      ~ConnectAccepted(m) => KeepsClient(ConnectResult(c, m), m.client_id)
            /\ (pc[c] = "cleanup" /\ Rejected(c)) =>
                  KeepsClient(CleanupResult(c), client_id[c])

\* C38: with authentication enabled, no PUBLISH, SUBSCRIBE or UNSUBSCRIBE
\* that follows a rejected CONNECT on the same connection is handled: no such
\* PUBLISH is written to a subscriber or queued in a session, and no such
\* SUBSCRIBE or UNSUBSCRIBE changes the subscription sets or a session.
RejectedConnectionIgnored ==
    authentication_enabled =>
        \A c \in Conns :
            (pc[c] = "reading" /\ Rejected(c)) =>
                /\ \A m \in PublishMsgs :
                      LET r == PublishResult(c, m)
                      IN r.out = NoOut /\ r.sessions = sessions
                /\ \A m \in SubscribeMsgsQos1 :
                      LET r == SubscribeResult(c, m)
                      IN /\ r.subscriptions = subscriptions
                         /\ r.client_subscriptions = client_subscriptions
                         /\ r.sessions = sessions
                /\ \A m \in UnsubscribeMsgs :
                      LET r == UnsubscribeResult(c, m)
                      IN /\ r.subscriptions = subscriptions
                         /\ r.client_subscriptions = client_subscriptions
                         /\ r.sessions = sessions

\* ---- a persistent client that reconnects ------------------------------------------------
\* Connection 1 is client "A" with a persistent session, subscribing to "t";
\* connection 2 is the same client reconnecting after connection 1 has ended;
\* connection 3 is client "B", publishing on "t" at QoS 1 and 2.
MessagesReconnect(c) ==
    {m \in ConnectMsgs :
        /\ client_id[c] = None
        /\ c = 2 => pc[1] = "done"
        /\ m.client_id = (IF c = 3 THEN "B" ELSE "A") /\ ~m.clean_session
        /\ m.username = "u" /\ m.password = "p"}
    \cup {m \in SubscribeMsgsQos1 :
            /\ c \in DOMAIN writer_to_client_id /\ c # 3
            /\ Len(m.subscriptions) = 1 /\ m.subscriptions[1][1] = "t"}
    \cup {m \in PublishMsgs :
            c \in DOMAIN writer_to_client_id /\ c = 3 /\ m.topic = "t" /\ m.qos \in {1, 2}}

NextReconnect ==
    \/ \E c \in Conns : Accept(c)
    \/ \E c \in Conns : \E m \in MessagesReconnect(c) : HandleMessage(c, m)
    \/ \E c \in Conns : ReadFail(c)
    \/ \E c \in Conns : Cleanup(c)
SpecReconnect == InitThree /\ [][NextReconnect]_vars

\* C39: for every session created with clean_session=false and every QoS 1
\* or 2 PUBLISH of another, connected client on a topic of the session's
\* subscriptions, handle_publish writes the PUBLISH to the connection
\* registered for the session's client_id or leaves it (a message with its
\* message id) in the session's queued_messages, also after the client has
\* reconnected and before it has subscribed again.
NoMessageLost ==
    \A id \in DOMAIN sessions : \A c \in Conns : \A m \in PublishMsgs :
        (/\ last_clean[id] = "persistent"
         /\ pc[c] = "reading" /\ c \in DOMAIN writer_to_client_id /\ ~closed[c]
         /\ client_id[c] # id
         /\ m.qos \in {1, 2} /\ m.topic \in sessions[id].subscriptions)
        => LET r == PublishResult(c, m)
           IN \/ /\ id \in DOMAIN connected_clients
                 /\ \E i \in DOMAIN r.out[connected_clients[id]] :
                       r.out[connected_clients[id]][i] = m
              \/ \E i \in DOMAIN r.sessions[id].queued_messages :
                    MessageId(r.sessions[id].queued_messages[i]) = MessageId(m)

====
